---- MODULE Spec2Model ----
(***************************************************************************)
(* DataCleanAI: the analysis engine (DataQualityAnalyzer) and the cleaning *)
(* engine (AutoDataCleaner) as a state machine over in-memory Tables.      *)
(*                                                                         *)
(* A Table is a pandas DataFrame: a sequence of row labels (index) and an  *)
(* ordered sequence of columns, each with a name, a dtype and one cell per *)
(* row.  Numbers are exact rationals n/d; NaN/None/NaT is the Null cell.   *)
(* pandas >= 2.0 semantics are modelled (pd.Series() has dtype object).    *)
(***************************************************************************)
EXTENDS Integers, Sequences, FiniteSets, TLC

\* ------------------------------------------------------------------ bounds
MaxRows == 4
LongRows == 21
MaxItems == 2
MaxJobs == 2
MaxUploads == 2
MaxRequests == 2

\* ------------------------------------------------------- program constants
MinMLRows == 10
KNeighbors == 5
DropPct == 50
MeanPct == 5
MedianPct == 20
ModePct == 10
MaxEncodeUnique == 50
\* IsolationForest(contamination=0.1), LocalOutlierFactor(contamination=0.1)
ContaminationPct == 10

\* --------------------------------------------------------------- utilities
Abs(x) == IF x < 0 THEN -x ELSE x

RECURSIVE GCD(_, _)
GCD(a, b) == IF b = 0 THEN a ELSE GCD(b, a % b)

Range(s) == {s[i] : i \in 1..Len(s)}

RECURSIVE SeqOfSet(_)
SeqOfSet(S) == IF S = {} THEN <<>>
               ELSE LET x == CHOOSE y \in S : \A z \in S : y <= z
                    IN <<x>> \o SeqOfSet(S \ {x})

SelectIdx(s, Keep(_)) ==
  LET K == {i \in 1..Len(s) : Keep(i)}
  IN [j \in 1..Cardinality(K) |->
        s[CHOOSE i \in K : Cardinality({x \in K : x <= i}) = j]]

IndexOf(s, x) == IF \E i \in 1..Len(s) : s[i] = x
                 THEN CHOOSE i \in 1..Len(s) : s[i] = x /\ \A j \in 1..(i - 1) : s[j] # x
                 ELSE 0

\* ------------------------------------------------------------------- cells
\* One record shape for every cell: k is the kind ("null", "num", "str",
\* "date", "zsq"); n/d a rational in lowest terms with d > 0; s a string.
\* A "zsq" cell is a standardized value z kept exactly as sign(z) * z^2.
Null == [k |-> "null", n |-> 0, d |-> 1, s |-> ""]

Num(a, b) == LET g == GCD(Abs(a), Abs(b))
                 sg == IF b < 0 THEN -1 ELSE 1
             IN [k |-> "num", n |-> sg * (a \div g), d |-> sg * (b \div g), s |-> ""]

NumInt(a) == [k |-> "num", n |-> a, d |-> 1, s |-> ""]

Str(x) == [k |-> "str", n |-> 0, d |-> 1, s |-> x]

IsNull(c) == c.k = "null"

Lt(a, b) == a.n * b.d < b.n * a.d
Le(a, b) == a.n * b.d <= b.n * a.d
Add(a, b) == Num(a.n * b.d + b.n * a.d, a.d * b.d)
Sub(a, b) == Num(a.n * b.d - b.n * a.d, a.d * b.d)
Mul(a, b) == Num(a.n * b.n, a.d * b.d)
Scale(a, p, q) == Num(a.n * p, a.d * q)

Sorted(s) == SortSeq(s, Lt)

\* least common denominator of s[lo..hi]
RECURSIVE DenLcm(_, _, _)
DenLcm(s, lo, hi) ==
  IF lo > hi THEN 1
  ELSE IF lo = hi THEN s[lo].d
  ELSE LET mid == (lo + hi) \div 2
           x   == DenLcm(s, lo, mid)
           y   == DenLcm(s, mid + 1, hi)
       IN (x * y) \div GCD(x, y)

\* sum of the numerators of s[lo..hi] over the denominator D
RECURSIVE SumRange(_, _, _, _)
SumRange(s, D, lo, hi) ==
  IF lo > hi THEN 0
  ELSE IF lo = hi THEN s[lo].n * (D \div s[lo].d)
  ELSE LET mid == (lo + hi) \div 2
       IN SumRange(s, D, lo, mid) + SumRange(s, D, mid + 1, hi)

SumSeq(s) == LET D == DenLcm(s, 1, Len(s)) IN Num(SumRange(s, D, 1, Len(s)), D)

\* mutant: the mean cut to a whole number
MeanTruncated(s) == NumInt(SumSeq(s).n \div (SumSeq(s).d * Len(s)))

Mean(s) == Scale(SumSeq(s), 1, Len(s))

\* population variance (ddof = 0): the mean of the squared deviations,
\* computed as mean(x^2) - mean(x)^2, the same rational
Variance(s) == Sub(Mean([i \in 1..Len(s) |-> Mul(s[i], s[i])]), Mul(Mean(s), Mean(s)))

\* pandas Series.quantile(p/4), interpolation 'linear', on non-null values
Quantile(s, p) ==
  LET srt == Sorted(s)
      h   == (Len(s) - 1) * p
      lo  == (h \div 4) + 1
      fr  == h % 4
  IN IF fr = 0 THEN srt[lo]
     ELSE Add(srt[lo], Scale(Sub(srt[lo + 1], srt[lo]), fr, 4))

Median(s) == Quantile(s, 2)

\* Python's a < b on floats: False whenever either side is NaN
PyLt(a, b) == ~IsNull(a) /\ ~IsNull(b) /\ Lt(a, b)

\* Python's min(a, b) / max(a, b): the first argument unless the second beats it
PyMin(a, b) == IF PyLt(b, a) THEN b ELSE a
PyMax(a, b) == IF PyLt(a, b) THEN b ELSE a

\* numpy x / y * 100 : NaN when y = 0 (0/0 with warnings ignored)
Pct(x, y) == IF y = 0 THEN Null ELSE Num(100 * x, y)

\* ------------------------------------------------------------------ tables
NRows(t) == Len(t.index)
NCols(t) == Len(t.cols)
Shape(t) == <<NRows(t), NCols(t)>>
ColNames(t) == [j \in 1..Len(t.cols) |-> t.cols[j].name]
HasCol(t, name) == \E j \in 1..Len(t.cols) : t.cols[j].name = name
Col(t, name) == t.cols[CHOOSE j \in 1..Len(t.cols) : t.cols[j].name = name]
RowAt(t, i) == [j \in 1..Len(t.cols) |-> t.cols[j].vals[i]]

\* pd.api.types.is_numeric_dtype / select_dtypes(include=[np.number])
IsNumericDtype(dt) == dt \in {"int64", "float64"}
NumericCols(t) == SelectSeq(ColNames(t), LAMBDA nm : IsNumericDtype(Col(t, nm).dtype))

NonNull(vals) == SelectSeq(vals, LAMBDA c : ~IsNull(c))
NullCount(vals) == Len(vals) - Len(NonNull(vals))
TotalMissing(t) ==
  LET F[j \in 0..NCols(t)] == IF j = 0 THEN 0 ELSE F[j - 1] + NullCount(t.cols[j].vals)
  IN F[NCols(t)]

\* --------------------------------------------------- DataQualityAnalyzer
AssessMissingSeverity(p) ==
  IF PyLt(p, NumInt(5)) THEN "low" ELSE IF PyLt(p, NumInt(20)) THEN "medium" ELSE "high"

\* mutant: the percentage taken over the rows, not the cells
AnalyzeMissingDataPerRow(t) ==
  LET total_missing == TotalMissing(t)
      total_cells   == NRows(t)
      pct           == Pct(total_missing, total_cells)
  IN [total_missing      |-> total_missing,
      total_cells        |-> total_cells,
      missing_percentage |-> pct,
      column_missing     |-> [nm \in Range(ColNames(t)) |-> NullCount(Col(t, nm).vals)],
      column_missing_pct |-> [nm \in Range(ColNames(t)) |->
                                 Pct(NullCount(Col(t, nm).vals), NRows(t))],
      severity           |-> AssessMissingSeverity(pct)]

AnalyzeMissingData(t) ==
  LET total_missing == TotalMissing(t)
      total_cells   == NRows(t) * NCols(t)
      pct           == Pct(total_missing, total_cells)
  IN [total_missing      |-> total_missing,
      total_cells        |-> total_cells,
      missing_percentage |-> pct,
      column_missing     |-> [nm \in Range(ColNames(t)) |-> NullCount(Col(t, nm).vals)],
      column_missing_pct |-> [nm \in Range(ColNames(t)) |->
                                 Pct(NullCount(Col(t, nm).vals), NRows(t))],
      severity           |-> AssessMissingSeverity(pct)]

\* df.duplicated(): row i repeats an earlier row in every column (NaN == NaN)
Duplicated(t, i) == \E j \in 1..(i - 1) : RowAt(t, j) = RowAt(t, i)

\* mutant: 10% still counted as medium
AssessDuplicateSeverityInclusive(p) ==
  IF PyLt(p, NumInt(1)) THEN "low" ELSE IF ~PyLt(NumInt(10), p) THEN "medium" ELSE "high"

AssessDuplicateSeverity(p) ==
  IF PyLt(p, NumInt(1)) THEN "low" ELSE IF PyLt(p, NumInt(10)) THEN "medium" ELSE "high"

AnalyzeDuplicates(t) ==
  LET exact == Cardinality({i \in 1..NRows(t) : Duplicated(t, i)})
      pct   == Pct(exact, NRows(t))
  IN [exact_duplicates    |-> exact,
      exact_duplicate_pct |-> pct,
      severity            |-> AssessDuplicateSeverity(pct)]

\* positions of the non-null cells of a column (col_data = df[col].dropna())
DataPos(t, nm) == {i \in 1..NRows(t) : ~IsNull(Col(t, nm).vals[i])}

IqrBounds(vals) ==
  LET Q1  == Quantile(vals, 1)
      Q3  == Quantile(vals, 3)
      IQR == Sub(Q3, Q1)
  IN [lower |-> Sub(Q1, Scale(IQR, 3, 2)), upper |-> Add(Q3, Scale(IQR, 3, 2))]

\* mutant: values on a fence counted as outside
OutsideBoundsInclusive(v, b) == Le(v, b.lower) \/ Le(b.upper, v)

OutsideBounds(v, b) == Lt(v, b.lower) \/ Lt(b.upper, v)

IqrOutliers(t, nm) ==
  LET c == Col(t, nm)
      b == IqrBounds(NonNull(c.vals))
  IN {t.index[i] : i \in {p \in DataPos(t, nm) : OutsideBounds(c.vals[p], b)}}

\* |x - mean| / std > 3 with the population std; 0/0 is NaN and never > 3
ZscoreOutliers(t, nm) ==
  LET c    == Col(t, nm)
      data == NonNull(c.vals)
      m    == Mean(data)
      var  == Variance(data)
      Far(v) == Lt(Scale(var, 9, 1), Mul(Sub(v, m), Sub(v, m)))
  IN {t.index[i] : i \in {p \in DataPos(t, nm) : Far(c.vals[p])}}

AbsC(v) == IF v.n < 0 THEN Num(-v.n, v.d) ELSE v

\* mutant: a zero mad taken as no spread, nothing flagged
ModifiedZscoreOutliersGuarded(t, nm) ==
  LET c    == Col(t, nm)
      data == NonNull(c.vals)
      med  == Median(data)
      mad  == Median([i \in 1..Len(data) |-> AbsC(Sub(data[i], med))])
      Far(v) == IF mad.n = 0 THEN FALSE
                ELSE Lt(Scale(mad, 35000, 1), Scale(AbsC(Sub(v, med)), 6745, 1))
  IN {t.index[i] : i \in {p \in DataPos(t, nm) : Far(c.vals[p])}}

\* 0.6745 * (x - median) / mad, |.| > 3.5; mad = 0 gives +-inf (> 3.5) or NaN
ModifiedZscoreOutliers(t, nm) ==
  LET c    == Col(t, nm)
      data == NonNull(c.vals)
      med  == Median(data)
      mad  == Median([i \in 1..Len(data) |-> AbsC(Sub(data[i], med))])
      Far(v) == IF mad.n = 0 THEN v # med
                ELSE Lt(Scale(mad, 35000, 1), Scale(AbsC(Sub(v, med)), 6745, 1))
  IN {t.index[i] : i \in {p \in DataPos(t, nm) : Far(c.vals[p])}}

\* columns that get an entry in results: numeric with at least one value
StatCols(t) == {nm \in Range(NumericCols(t)) : DataPos(t, nm) # {}}

StatisticalOutlierDetection(t) ==
  [nm \in StatCols(t) |->
     [iqr_bounds      |-> IqrBounds(NonNull(Col(t, nm).vals)),
      outlier_indices |-> [iqr             |-> IqrOutliers(t, nm),
                           zscore          |-> ZscoreOutliers(t, nm),
                           modified_zscore |-> ModifiedZscoreOutliers(t, nm)]]]

\* An ensemble detector's entry: has_indices is whether the entry carries
\* "outlier_indices" (it carries "error" instead when fit_predict raised).
MLEntry(ok, idx) == [has_indices |-> ok, outlier_indices |-> idx]

\* numeric_df = df[numeric_cols].fillna(median): a column with no value
\* keeps its NaN and both fit_predict calls raise
MLInputHasNaN(t) == \E nm \in Range(NumericCols(t)) : DataPos(t, nm) = {}

\* the frame handed to both detectors: the numeric columns, each hole filled
\* with the median of its column
MLFrame(t) ==
  [j \in 1..Len(NumericCols(t)) |->
     LET vals == Col(t, NumericCols(t)[j]).vals
     IN IF NonNull(vals) = <<>> THEN vals
        ELSE [i \in 1..Len(vals) |-> IF IsNull(vals[i]) THEN Median(NonNull(vals)) ELSE vals[i]]]

\* the groups of row labels whose rows are equal in that frame
MLClasses(t) ==
  LET f      == MLFrame(t)
      row(i) == [j \in 1..Len(f) |-> f[j][i]]
  IN {{t.index[p] : p \in {p \in 1..NRows(t) : row(p) = row(q)}} : q \in 1..NRows(t)}

\* fit_predict flags the rows whose score is strictly below
\* np.percentile(scores, 100 * contamination), the value at position
\* contamination * (n - 1) of the sorted scores: at most the rows at the
\* positions 0 .. floor(contamination * (n - 1))
MaxFlagged(n) == ((n - 1) * ContaminationPct) \div 100 + 1

\* The sets of row labels an ensemble detector may flag. The scores of the
\* forest and of the neighbourhood densities are not computed here: every
\* set is allowed that the predictions can give, equal rows having equal
\* scores (flagged together or not at all) and at most MaxFlagged rows lying
\* below the percentile.
MLFlagSets(t) ==
  LET most  == MaxFlagged(NRows(t))
      small == {c \in MLClasses(t) : Cardinality(c) <= most}
  IN {UNION P : P \in {Q \in SUBSET small : Cardinality(UNION Q) <= most}}

\* the shapes _ml_outlier_detection can return for t
\* mutant: the ensemble methods already run on nine rows
MLOutcomesNineRows(t) ==
  IF Len(NumericCols(t)) = 0 \/ NRows(t) < MinMLRows - 1
  THEN {[message |-> TRUE, isolation_forest |-> MLEntry(FALSE, {}),
         local_outlier_factor |-> MLEntry(FALSE, {})]}
  ELSE IF MLInputHasNaN(t)
  THEN {[message |-> FALSE, isolation_forest |-> MLEntry(FALSE, {}),
         local_outlier_factor |-> MLEntry(FALSE, {})]}
  ELSE {[message |-> FALSE, isolation_forest |-> MLEntry(TRUE, a),
         local_outlier_factor |-> MLEntry(TRUE, b)] :
           a \in MLFlagSets(t), b \in MLFlagSets(t)}

MLOutcomes(t) ==
  IF Len(NumericCols(t)) = 0 \/ NRows(t) < MinMLRows
  THEN {[message |-> TRUE, isolation_forest |-> MLEntry(FALSE, {}),
         local_outlier_factor |-> MLEntry(FALSE, {})]}
  ELSE IF MLInputHasNaN(t)
  THEN {[message |-> FALSE, isolation_forest |-> MLEntry(FALSE, {}),
         local_outlier_factor |-> MLEntry(FALSE, {})]}
  ELSE {[message |-> FALSE, isolation_forest |-> MLEntry(TRUE, a),
         local_outlier_factor |-> MLEntry(TRUE, b)] :
           a \in MLFlagSets(t), b \in MLFlagSets(t)}

MLMethods == {"isolation_forest", "local_outlier_factor"}

\* mutant: the ensemble detectors' indices left out of the union
CombineOutlierResultsNoML(statistical, ml_based) ==
  LET all == UNION {UNION {statistical[nm].outlier_indices[m] :
                             m \in DOMAIN statistical[nm].outlier_indices} :
                      nm \in DOMAIN statistical}
  IN [total_outliers |-> Cardinality(all), all_outlier_indices |-> all]

CombineOutlierResults(statistical, ml_based) ==
  LET stat == UNION {UNION {statistical[nm].outlier_indices[m] :
                              m \in DOMAIN statistical[nm].outlier_indices} :
                       nm \in DOMAIN statistical}
      ml   == IF ml_based.message THEN {}
              ELSE UNION {IF ml_based[m].has_indices THEN ml_based[m].outlier_indices
                          ELSE {} : m \in MLMethods}
      all  == stat \cup ml
  IN [total_outliers |-> Cardinality(all), all_outlier_indices |-> all]

NoCombined == [total_outliers |-> 0, all_outlier_indices |-> {}]

\* has_combined is FALSE for the {"message": ...} result (no numeric column)
AnalyzeOutliers(t, ml) ==
  IF Len(NumericCols(t)) = 0
  THEN [has_combined |-> FALSE, statistical |-> <<>>, ml_based |-> ml,
        combined |-> NoCombined]
  ELSE LET statistical == StatisticalOutlierDetection(t)
       IN [has_combined |-> TRUE, statistical |-> statistical, ml_based |-> ml,
           combined |-> CombineOutlierResults(statistical, ml)]

Clamp(score) == PyMax(NumInt(0), PyMin(NumInt(100), score))

\* NaN propagates through the subtractions
SubPenalty(score, pct, p, q) ==
  IF IsNull(score) \/ IsNull(pct) THEN Null ELSE Sub(score, Scale(pct, p, q))

\* mutant: duplicates weighted like missing cells
RawQualityScoreDupWeight(r) ==
  LET total_outliers == IF r.outliers.has_combined
                        THEN r.outliers.combined.total_outliers ELSE 0
      total_rows     == r.basic_info.shape[1]
      outlier_pct    == IF total_rows > 0 THEN Pct(total_outliers, total_rows)
                        ELSE NumInt(0)
      s1 == SubPenalty(NumInt(100), r.missing_data.missing_percentage, 2, 1)
      s2 == SubPenalty(s1, r.duplicates.exact_duplicate_pct, 2, 1)
  IN SubPenalty(s2, outlier_pct, 1, 2)

\* score before the final max(0.0, min(100.0, score))
RawQualityScore(r) ==
  LET total_outliers == IF r.outliers.has_combined
                        THEN r.outliers.combined.total_outliers ELSE 0
      total_rows     == r.basic_info.shape[1]
      outlier_pct    == IF total_rows > 0 THEN Pct(total_outliers, total_rows)
                        ELSE NumInt(0)
      s1 == SubPenalty(NumInt(100), r.missing_data.missing_percentage, 2, 1)
      s2 == SubPenalty(s1, r.duplicates.exact_duplicate_pct, 3, 2)
  IN SubPenalty(s2, outlier_pct, 1, 2)

\* mutant: the final clamp forgotten
CalculateQualityScoreUnclamped(r) == RawQualityScore(r)

CalculateQualityScore(r) == Clamp(RawQualityScore(r))

\* ---------------------------------------------------------- AutoDataCleaner
\* One entry of cleaning_results["cleaning_steps"]; kind is the sentence
\* ("imputed", "removed_outliers", "capped", "removed_duplicates",
\* "converted", "scaled", "encoded"), the other fields its arguments.
Step(kind, col, count, arg) == [kind |-> kind, col |-> col, count |-> count, arg |-> arg]

SetCol(t, nm, dtype, vals) ==
  [t EXCEPT !.cols = [j \in 1..Len(t.cols) |->
     IF t.cols[j].name = nm THEN [name |-> nm, dtype |-> dtype, vals |-> vals]
     ELSE t.cols[j]]]

DropCol(t, nm) == [t EXCEPT !.cols = SelectSeq(t.cols, LAMBDA c : c.name # nm)]

\* df[nm] = value: replaces the column in place, or appends a new last column
AssignCol(t, nm, dtype, vals) ==
  IF HasCol(t, nm) THEN SetCol(t, nm, dtype, vals)
  ELSE [t EXCEPT !.cols = Append(t.cols, [name |-> nm, dtype |-> dtype, vals |-> vals])]

FillNull(vals, v) == [i \in 1..Len(vals) |-> IF IsNull(vals[i]) THEN v ELSE vals[i]]

\* mutant: the drop threshold taken as >= 50
SelectImputationMethodGe(t, col, missing_data) ==
  LET missing_pct == missing_data.column_missing_pct[col]
  IN IF ~PyLt(missing_pct, NumInt(DropPct)) THEN "drop_column"
     ELSE IF IsNumericDtype(Col(t, col).dtype)
          THEN IF PyLt(missing_pct, NumInt(MeanPct)) THEN "mean"
               ELSE IF PyLt(missing_pct, NumInt(MedianPct)) THEN "median"
               ELSE "knn"
          ELSE IF PyLt(missing_pct, NumInt(ModePct)) THEN "mode"
               ELSE "constant"

SelectImputationMethod(t, col, missing_data) ==
  LET missing_pct == missing_data.column_missing_pct[col]
  IN IF PyLt(NumInt(DropPct), missing_pct) THEN "drop_column"
     ELSE IF IsNumericDtype(Col(t, col).dtype)
          THEN IF PyLt(missing_pct, NumInt(MeanPct)) THEN "mean"
               ELSE IF PyLt(missing_pct, NumInt(MedianPct)) THEN "median"
               ELSE "knn"
          ELSE IF PyLt(missing_pct, NumInt(ModePct)) THEN "mode"
               ELSE "constant"

\* Python's order on the strings of the model (code-point order)
StrOrder == <<" A", " a", "7", "A", "B", "Nan", "United States", "United states", "Unknown",
              "Usa", "a", "b", "nan", "usa">>
StrLt(x, y) == IndexOf(StrOrder, x) < IndexOf(StrOrder, y)

\* SimpleImputer(strategy='most_frequent'): the most frequent value, the
\* smallest one on a tie
MostFrequent(vals) ==
  LET data == NonNull(vals)
      Cnt(v) == Cardinality({i \in 1..Len(data) : data[i] = v})
      best == {v \in Range(data) : \A w \in Range(data) : Cnt(w) <= Cnt(v)}
  IN CHOOSE v \in best : \A w \in best : w = v \/ StrLt(v.s, w.s)

\* df.drop(columns=[col], inplace=True); return pd.Series()  -- and the
\* caller's df[col] = <empty Series> puts col back as a new last column of
\* NaN with dtype object
DropColumnImputation(t, col) ==
  AssignCol(DropCol(t, col), col, "object", [i \in 1..NRows(t) |-> Null])

\* nan_euclidean distance (squared) between rows r and d over the columns in
\* feats; Null when the rows share no present coordinate
NanDistSq(t, feats, r, d) ==
  LET Shared(nm) == ~IsNull(Col(t, nm).vals[r]) /\ ~IsNull(Col(t, nm).vals[d])
      Sq(nm)     == LET x == Sub(Col(t, nm).vals[r], Col(t, nm).vals[d]) IN Mul(x, x)
      terms      == [j \in 1..Len(feats) |->
                       IF Shared(feats[j]) THEN Sq(feats[j]) ELSE NumInt(0)]
      npresent   == Cardinality({j \in 1..Len(feats) : Shared(feats[j])})
  IN IF npresent = 0 THEN Null ELSE Scale(SumSeq(terms), Len(feats), npresent)

\* KNN is used when another numeric column exists; else the median fallback
KnnFeasible(t, col) == Len(NumericCols(t)) > 1

\* temp_df = df[feature_cols + [col]]
KnnFrame(t, col) == SelectSeq(NumericCols(t), LAMBDA nm : nm # col) \o <<col>>

\* KNNImputer drops a feature with no value at all from its output, and
\* pd.DataFrame(<fewer columns>, columns=temp_df.columns) raises ValueError
KnnRaises(t, col) ==
  KnnFeasible(t, col) /\ \E nm \in Range(KnnFrame(t, col)) : DataPos(t, nm) = {}

\* d is at most as far from r as e (an undefined distance sorts last)
NotFarther(t, col, r, d, e) ==
  LET dd == NanDistSq(t, KnnFrame(t, col), r, d)
      de == NanDistSq(t, KnnFrame(t, col), r, e)
  IN IsNull(de) \/ (~IsNull(dd) /\ Le(dd, de))

MeanAt(t, col, P) == Mean([j \in 1..Cardinality(P) |-> Col(t, col).vals[SeqOfSet(P)[j]]])

\* The values KNNImputer may give row r: the mean over the k nearest donors
\* (ties broken arbitrarily), counting or not counting the chosen donors at
\* an undefined distance; the column mean when no donor is at a defined one.
KnnCandidates(t, col, r) ==
  LET donors  == DataPos(t, col)
      defined == {d \in donors : ~IsNull(NanDistSq(t, KnnFrame(t, col), r, d))}
      k       == IF KNeighbors < NRows(t) THEN KNeighbors ELSE NRows(t)
      kk      == IF k < Cardinality(donors) THEN k ELSE Cardinality(donors)
      chosen  == IF kk = Cardinality(donors) THEN {donors}
                 ELSE {C \in SUBSET donors :
                         /\ Cardinality(C) = kk
                         /\ \A d \in C, e \in donors \ C : NotFarther(t, col, r, d, e)}
  IN IF defined = {} THEN {MeanAt(t, col, donors)}
     ELSE {MeanAt(t, col, C) : C \in chosen}
          \cup {MeanAt(t, col, C \cap defined) : C \in chosen}

KnnFills(t, col) ==
  LET vals == Col(t, col).vals
      recv == {i \in 1..NRows(t) : IsNull(vals[i])}
      cand == UNION {KnnCandidates(t, col, r) : r \in recv}
  IN {[i \in 1..NRows(t) |-> IF i \in recv THEN f[i] ELSE vals[i]] :
        f \in {g \in [recv -> cand] : \A r \in recv : g[r] \in KnnCandidates(t, col, r)}}

Outcome(t, raised, imputer) == [df |-> t, raised |-> raised, imputer |-> imputer]

\* df[col] = self._apply_imputation(df, col, method): the Tables it can leave,
\* whether it raised, and the imputer stored under self.imputers[col]
ApplyImputation(t, col, method) ==
  LET vals == Col(t, col).vals
      data == NonNull(vals)
  IN CASE method = "drop_column" ->
            {Outcome(DropColumnImputation(t, col), FALSE, "none")}
       [] method = "mean" ->
            {Outcome(SetCol(t, col, "float64", FillNull(vals, Mean(data))), FALSE, "mean")}
       [] method = "median" ->
            {Outcome(SetCol(t, col, "float64", FillNull(vals, Median(data))), FALSE, "median")}
       [] method = "mode" ->
            {Outcome(SetCol(t, col, "object", FillNull(vals, MostFrequent(vals))),
                     FALSE, "most_frequent")}
       [] method = "knn" ->
            IF KnnRaises(t, col) THEN {Outcome(t, TRUE, "none")}
            ELSE IF KnnFeasible(t, col)
            THEN {Outcome(SetCol(t, col, "float64", f), FALSE, "knn") : f \in KnnFills(t, col)}
            ELSE {Outcome(SetCol(t, col, "float64", FillNull(vals, Median(data))),
                          FALSE, "median")}
       [] method = "constant" ->
            {Outcome(SetCol(t, col, Col(t, col).dtype,
                            FillNull(vals, IF Col(t, col).dtype = "object"
                                           THEN Str("Unknown") ELSE NumInt(-999))),
                     FALSE, "none")}

\* The loop of _handle_missing_data over the columns df had on entry.  st is
\* the loop state; the result is the set of states the loop can end in.
\* mutant: every column sent to the imputer
HasMissingAlways(missing_count) == missing_count >= 0

HasMissing(missing_count) == missing_count > 0

RECURSIVE MissingLoop(_, _, _)
MissingLoop(st, cols, missing_data) ==
  IF cols = <<>> \/ st.raised THEN {st}
  ELSE LET col   == Head(cols)
           count == NullCount(Col(st.df, col).vals)
           m     == SelectImputationMethod(st.df, col, missing_data)
       IN IF ~HasMissing(count) THEN MissingLoop(st, Tail(cols), missing_data)
          ELSE UNION {
                 MissingLoop(
                   IF o.raised THEN [st EXCEPT !.raised = TRUE]
                   ELSE [df       |-> o.df,
                         raised   |-> FALSE,
                         imputers |-> IF o.imputer = "none" THEN st.imputers
                                      ELSE [nm \in DOMAIN st.imputers \cup {col} |->
                                              IF nm = col THEN o.imputer ELSE st.imputers[nm]],
                         columns_imputed |-> Append(st.columns_imputed, col),
                         methods_used    |-> [nm \in DOMAIN st.methods_used \cup {col} |->
                                              IF nm = col THEN m ELSE st.methods_used[nm]],
                         steps    |-> Append(st.steps, Step("imputed", col, count, m))],
                   Tail(cols), missing_data) :
                 o \in ApplyImputation(st.df, col, m)}

\* ------------------------------------------------------- outlier treatment
KeepRows(t, Keep(_)) ==
  [index |-> SelectIdx(t.index, Keep),
   cols  |-> [j \in 1..Len(t.cols) |->
                [t.cols[j] EXCEPT !.vals = SelectIdx(t.cols[j].vals, Keep)]]]

\* df.drop(index=outlier_indices)
DropIndex(t, labels) == KeepRows(t, LAMBDA i : t.index[i] \notin labels)

\* the guard of _handle_outliers: no report, no treatment at all
OutliersSkipped(report) == ~report.present

\* labels removed by the first phase
\* mutant: only the statistical detectors' rows removed
OutlierIndicesStatOnly(report) ==
  IF report.outliers.has_combined
  THEN LET st == report.outliers.statistical
       IN UNION {UNION {st[nm].outlier_indices[m] : m \in DOMAIN st[nm].outlier_indices} :
                   nm \in DOMAIN st}
  ELSE {}

OutlierIndices(report) ==
  IF report.outliers.has_combined THEN report.outliers.combined.all_outlier_indices ELSE {}

\* mutant: the clipped values never written back
ClipNoop(v, b) == v

Clip(v, b) == IF Lt(v, b.lower) THEN b.lower ELSE IF Lt(b.upper, v) THEN b.upper ELSE v

IsWhole(vals) == \A i \in 1..Len(vals) : vals[i].d = 1

\* one pass of the capping loop on column nm: the capped column and the
\* number of capped cells (0 when the column holds no value)
CapColumn(t, nm) ==
  LET c    == Col(t, nm)
      data == NonNull(c.vals)
      b    == IqrBounds(data)
      mask == {i \in 1..NRows(t) : ~IsNull(c.vals[i]) /\ OutsideBounds(c.vals[i], b)}
      vals == [i \in 1..NRows(t) |-> IF i \in mask THEN Clip(c.vals[i], b) ELSE c.vals[i]]
  IN IF data = <<>> THEN [count |-> 0, vals |-> c.vals, dtype |-> c.dtype]
     ELSE [count |-> Cardinality(mask), vals |-> vals,
           dtype |-> IF IsWhole(NonNull(vals)) THEN c.dtype ELSE "float64"]

RECURSIVE CapLoop(_, _)
CapLoop(st, cols) ==
  IF cols = <<>> THEN st
  ELSE LET nm == Head(cols)
           r  == CapColumn(st.df, nm)
       IN IF r.count = 0 THEN CapLoop(st, Tail(cols))
          ELSE CapLoop([df      |-> SetCol(st.df, nm, r.dtype, r.vals),
                        capped  |-> st.capped + r.count,
                        columns_processed |-> Append(st.columns_processed, nm),
                        steps   |-> Append(st.steps, Step("capped", nm, r.count, "iqr"))],
                       Tail(cols))

\* ----------------------------------------------------------- deduplication
\* mutant: only the first repeated row is dropped
DropDuplicatesOnce(t) ==
  KeepRows(t, LAMBDA i : ~(Duplicated(t, i) /\ \A j \in 1..(i - 1) : ~Duplicated(t, j)))

\* df.drop_duplicates(): the first of each group of equal rows is kept
DropDuplicates(t) == KeepRows(t, LAMBDA i : ~Duplicated(t, i))

\* mutant: every row that has a twin counted, the kept first one too
RemovedCountKeepFalse(t) ==
  Cardinality({i \in 1..NRows(t) : \E j \in 1..NRows(t) : j # i /\ RowAt(t, j) = RowAt(t, i)})

RemovedCount(t) == NRows(t) - NRows(DropDuplicates(t))

\* the log entries _remove_duplicates appends for t
DuplicateSteps(t) ==
  IF RemovedCount(t) > 0 THEN <<Step("removed_duplicates", "", RemovedCount(t), "")>>
  ELSE <<>>

\* ------------------------------------------------------ type standardization
\* what pd.to_numeric / pd.to_datetime make of the strings of the model
IsNumericStr(x) == x \in {"7"}
ParseNum(x) == CASE x = "7" -> NumInt(7) [] OTHER -> Null
IsDateStr(x) == x \in {}
\* a string pd.to_datetime reads as NaT instead of raising
IsNaTStr(x) == x \in {"nan"}

\* pd.to_numeric(series, errors='coerce')
ToNumeric(c) == IF c.k = "num" THEN c
                ELSE IF c.k = "str" /\ IsNumericStr(c.s) THEN ParseNum(c.s)
                ELSE Null

\* pd.to_datetime(series) raises on a value it cannot parse
DatetimeParses(c) ==
  c.k \in {"null", "num", "date"} \/ (c.k = "str" /\ (IsDateStr(c.s) \/ IsNaTStr(c.s)))

ToDatetime(c) ==
  IF IsNull(c) \/ ~DatetimeParses(c) \/ (c.k = "str" /\ IsNaTStr(c.s)) THEN Null
  ELSE [c EXCEPT !.k = "date"]

NUnique(vals) == Cardinality(Range(NonNull(vals)))

SuggestOptimalDtype(c) ==
  LET len     == Len(c.vals)
      numeric == Len(NonNull([i \in 1..len |-> ToNumeric(c.vals[i])]))
  IN IF c.dtype = "datetime64[ns]" THEN "datetime"
     ELSE IF len > 0 /\ 5 * numeric > 4 * len THEN "numeric"
     ELSE IF \A i \in 1..len : DatetimeParses(c.vals[i]) THEN "datetime"
     ELSE IF len > 0 /\ 2 * NUnique(c.vals) < len THEN "categorical"
     ELSE "object"

\* DataQualityAnalyzer._suggest_dtype: the same decisions, without the
\* early return for a datetime column
SuggestDtype(c) ==
  LET len     == Len(c.vals)
      numeric == Len(NonNull([i \in 1..len |-> ToNumeric(c.vals[i])]))
  IN IF len > 0 /\ 5 * numeric > 4 * len THEN "numeric"
     ELSE IF \A i \in 1..len : DatetimeParses(c.vals[i]) THEN "datetime"
     ELSE IF len > 0 /\ 2 * NUnique(c.vals) < len THEN "categorical"
     ELSE "object"

ConvertColumn(c, new_dtype) ==
  CASE new_dtype = "datetime" ->
         [c EXCEPT !.dtype = "datetime64[ns]",
                   !.vals = [i \in 1..Len(c.vals) |-> ToDatetime(c.vals[i])]]
    [] new_dtype = "numeric" ->
         LET vals == [i \in 1..Len(c.vals) |-> ToNumeric(c.vals[i])]
         IN [c EXCEPT !.vals = vals,
                      !.dtype = IF IsNumericDtype(c.dtype) THEN c.dtype
                                ELSE IF NullCount(vals) = 0 /\ IsWhole(vals) THEN "int64"
                                ELSE "float64"]
    [] new_dtype = "categorical" -> [c EXCEPT !.dtype = "category"]
    [] OTHER -> c

RECURSIVE TypesLoop(_, _)
TypesLoop(st, cols) ==
  IF cols = <<>> THEN st
  ELSE LET nm  == Head(cols)
           c   == Col(st.df, nm)
           new == SuggestOptimalDtype(c)
           cc  == ConvertColumn(c, new)
       IN IF new = c.dtype THEN TypesLoop(st, Tail(cols))
          ELSE TypesLoop([df    |-> SetCol(st.df, nm, cc.dtype, cc.vals),
                          type_conversions |->
                            [x \in DOMAIN st.type_conversions \cup {nm} |->
                               IF x = nm THEN [from |-> c.dtype, to |-> new]
                               ELSE st.type_conversions[x]],
                          steps |-> Append(st.steps, Step("converted", nm, 0, new))],
                         Tail(cols))

\* --------------------------------------------------------- text normalization
\* strip + collapse whitespace + the abbreviation table, on the model's strings
StandardizeStrings(x) ==
  CASE x = " a" -> "a"
    [] x = " A" -> "A"
    [] x \in {"usa", "Usa"} -> "United States"
    [] OTHER -> x

\* str.capitalize(): the first character upper case, the rest lower case
Capitalize(x) ==
  CASE x \in {"a", "A"} -> "A"
    [] x \in {"b", "B"} -> "B"
    [] x \in {" a", " A"} -> " a"
    [] x \in {"nan", "Nan"} -> "Nan"
    [] x \in {"usa", "Usa"} -> "Usa"
    [] x \in {"United States", "United states"} -> "United states"
    [] OTHER -> x

\* str.title(): every word starts upper case, its other letters lower case
Title(x) ==
  CASE x \in {"a", "A"} -> "A"
    [] x \in {"b", "B"} -> "B"
    [] x \in {" a", " A"} -> " A"
    [] x \in {"nan", "Nan"} -> "Nan"
    [] x \in {"usa", "Usa"} -> "Usa"
    [] x \in {"United States", "United states"} -> "United States"
    [] OTHER -> x

\* title case when the column name holds 'name', 'title' or 'category'
NameLike(nm) == nm \in {"category"}

StandardizeCase(nm, x) == IF NameLike(nm) THEN Title(x) ELSE Capitalize(x)

HandleInconsistenciesDf(t) ==
  [t EXCEPT !.cols = [j \in 1..Len(t.cols) |->
     IF t.cols[j].dtype = "object"
     THEN [t.cols[j] EXCEPT !.vals = [i \in 1..NRows(t) |->
             IF t.cols[j].vals[i].k = "str"
             THEN Str(StandardizeCase(t.cols[j].name, StandardizeStrings(t.cols[j].vals[i].s)))
             ELSE t.cols[j].vals[i]]]
     ELSE t.cols[j]]]

\* ------------------------------------------------------ feature transformation
\* StandardScaler on one column: z = (x - mean) / std (std 0 scales by 1),
\* kept as the signed square of z; NaN stays NaN
ScaleColumn(vals) ==
  LET data == NonNull(vals)
      m    == Mean(data)
      var  == Variance(data)
      Z(v) == LET dev == Sub(v, m)
                  sq  == IF var.n = 0 THEN Mul(dev, dev)
                         ELSE Num(dev.n * dev.n * var.d, dev.d * dev.d * var.n)
              IN [k |-> "zsq", n |-> IF dev.n < 0 THEN -sq.n ELSE sq.n, d |-> sq.d, s |-> ""]
  IN [i \in 1..Len(vals) |-> IF IsNull(vals[i]) THEN Null ELSE Z(vals[i])]

\* StandardScaler refuses an array with no row
ScalerRaises(t) == Len(NumericCols(t)) > 0 /\ NRows(t) = 0

ScaleNumeric(t) ==
  [t EXCEPT !.cols = [j \in 1..Len(t.cols) |->
     IF IsNumericDtype(t.cols[j].dtype)
     THEN [t.cols[j] EXCEPT !.dtype = "float64", !.vals = ScaleColumn(t.cols[j].vals)]
     ELSE t.cols[j]]]

\* df[col].astype(str): NaN prints as 'nan'
AsStr(c) == IF IsNull(c) THEN "nan" ELSE c.s

\* LabelEncoder: the rank of the value among the sorted distinct strings
LabelEncode(vals) ==
  LET strs == {AsStr(vals[i]) : i \in 1..Len(vals)}
  IN [i \in 1..Len(vals) |->
        NumInt(Cardinality({x \in strs : StrLt(x, AsStr(vals[i]))}))]

CategoricalCols(t) ==
  SelectSeq(ColNames(t), LAMBDA nm : Col(t, nm).dtype \in {"category", "object"})

RECURSIVE EncodeLoop(_, _)
EncodeLoop(st, cols) ==
  IF cols = <<>> THEN st
  ELSE LET nm == Head(cols)
           c  == Col(st.df, nm)
       IN IF NUnique(c.vals) < MaxEncodeUnique
          THEN EncodeLoop([df       |-> SetCol(st.df, nm, "int64", LabelEncode(c.vals)),
                           encoders |-> st.encoders \cup {nm},
                           steps    |-> Append(st.steps, Step("encoded", nm, 0, "label_encoding"))],
                          Tail(cols))
          ELSE EncodeLoop(st, Tail(cols))

\* ------------------------------------- data types and recommendations
\* _detect_date_formats: "detected" once pd.to_datetime accepts some text value
DetectDateFormats(c) ==
  IF \E i \in 1..Len(c.vals) :
       c.vals[i].k = "str" /\ (IsDateStr(c.vals[i].s) \/ IsNaTStr(c.vals[i].s))
  THEN {"detected"} ELSE {}

\* _check_mixed_types: string_count is every value pd.to_numeric leaves NaN,
\* the nulls of the column among them
CheckMixedTypes(c) ==
  LET numeric_count == Len(NonNull([i \in 1..Len(c.vals) |-> ToNumeric(c.vals[i])]))
      string_count  == Len(c.vals) - numeric_count
  IN (IF numeric_count > 0 /\ string_count > 0 THEN <<"mixed_numeric_string">> ELSE <<>>)
     \o (IF Cardinality(DetectDateFormats(c)) > 1 THEN <<"mixed_date_formats">> ELSE <<>>)

AnalyzeDataTypes(t) ==
  [nm \in Range(ColNames(t)) |->
     [dtype           |-> Col(t, nm).dtype,
      mixed_types     |-> CheckMixedTypes(Col(t, nm)),
      suggested_dtype |-> SuggestDtype(Col(t, nm))]]

\* one recommendation; the analyzer's are sentences (severity ""), the
\* endpoint's carry a type and a severity
Recommendation(type, severity, col) == [type |-> type, severity |-> severity, col |-> col]

\* the data-type recommendations, in column order
MixedTypeRecommendations(r, severity) ==
  LET cols == SelectSeq(r.basic_info.columns,
                        LAMBDA nm : r.data_types[nm].mixed_types # <<>>)
  IN [i \in 1..Len(cols) |-> Recommendation("data_types", severity, cols[i])]

\* mutant: the outlier rule tried only when the duplicate rule did not fire
GenerateRecommendationsElif(r) ==
  (IF PyLt(NumInt(5), r.missing_data.missing_percentage)
   THEN <<Recommendation("missing_data", "", "")>> ELSE <<>>)
  \o (IF PyLt(NumInt(1), r.duplicates.exact_duplicate_pct)
      THEN <<Recommendation("duplicates", "", "")>>
      ELSE IF r.outliers.has_combined /\ r.outliers.combined.total_outliers > 0
      THEN <<Recommendation("outliers", "", "")>> ELSE <<>>)
  \o MixedTypeRecommendations(r, "")

GenerateRecommendations(r) ==
  (IF PyLt(NumInt(5), r.missing_data.missing_percentage)
   THEN <<Recommendation("missing_data", "", "")>> ELSE <<>>)
  \o (IF PyLt(NumInt(1), r.duplicates.exact_duplicate_pct)
      THEN <<Recommendation("duplicates", "", "")>> ELSE <<>>)
  \o (IF r.outliers.has_combined /\ r.outliers.combined.total_outliers > 0
      THEN <<Recommendation("outliers", "", "")>> ELSE <<>>)
  \o MixedTypeRecommendations(r, "")

\* GET /{dataset_id}/analysis/recommendations on a completed analysis job
GetAnalysisRecommendations(results) ==
  LET missing_pct   == results.missing_data.missing_percentage
      duplicate_pct == results.duplicates.exact_duplicate_pct
      recommendations ==
        (IF PyLt(NumInt(5), missing_pct)
         THEN <<Recommendation("missing_data",
                               IF PyLt(NumInt(20), missing_pct) THEN "high" ELSE "medium", "")>>
         ELSE <<>>)
        \o (IF PyLt(NumInt(1), duplicate_pct)
            THEN <<Recommendation("duplicates",
                                  IF PyLt(NumInt(10), duplicate_pct) THEN "high" ELSE "medium", "")>>
            ELSE <<>>)
        \o (IF results.outliers.has_combined /\ results.outliers.combined.total_outliers > 0
            THEN <<Recommendation("outliers", "medium", "")>> ELSE <<>>)
        \o MixedTypeRecommendations(results, "medium")
  IN [recommendations       |-> recommendations,
      total_recommendations |-> Len(recommendations),
      quality_score         |-> results.quality_score]

AnalyzeDataset(t, ml) ==
  LET partial == [present      |-> TRUE,
                  basic_info   |-> [shape |-> Shape(t), columns |-> ColNames(t)],
                  missing_data |-> AnalyzeMissingData(t),
                  duplicates   |-> AnalyzeDuplicates(t),
                  outliers     |-> AnalyzeOutliers(t, ml),
                  data_types   |-> AnalyzeDataTypes(t),
                  quality_score |-> NumInt(0),
                  recommendations |-> <<>>]
      scored  == [partial EXCEPT !.quality_score = CalculateQualityScore(partial)]
  IN [scored EXCEPT !.recommendations = GenerateRecommendations(scored)]

\* ------------------------------------------------------------ input Tables
NumVals == {0, 1, 4}
NumCells == {Null} \cup {NumInt(v) : v \in NumVals}

\* dtype read_csv infers: a numeric column with a hole is float64
NumCol(nm, vals) ==
  [name |-> nm, dtype |-> IF NullCount(vals) = 0 THEN "int64" ELSE "float64", vals |-> vals]
ObjCol(nm, vals) == [name |-> nm, dtype |-> "object", vals |-> vals]

MkTable(n, cols) == [index |-> [i \in 1..n |-> i - 1], cols |-> cols]

\* numeric and text column shapes used beside another column
LibNum(n) ==
  {[i \in 1..n |-> NumInt(0)],
   [i \in 1..n |-> NumInt(i % 2)],
   [i \in 1..n |-> IF i = 1 THEN Null ELSE NumInt(i % 2)],
   [i \in 1..n |-> IF i < n THEN Null ELSE NumInt(1)],
   [i \in 1..n |-> Null],
   [i \in 1..n |-> IF i = n THEN NumInt(4) ELSE NumInt(0)]}

LibObj(n) ==
  {[i \in 1..n |-> Str("a")],
   [i \in 1..n |-> IF i % 2 = 1 THEN Str("a") ELSE Str("b")],
   [i \in 1..n |-> IF i = 1 THEN Null ELSE IF i % 2 = 1 THEN Str("a") ELSE Str("b")],
   [i \in 1..n |-> IF i < n THEN Null ELSE Str("b")]}

SmallTables ==
  UNION {
    {MkTable(n, <<NumCol("age", v)>>) : v \in [1..n -> NumCells]}
    \cup {MkTable(n, <<NumCol("age", x), NumCol("income", y)>>) : x \in LibNum(n), y \in LibNum(n)}
    \cup {MkTable(n, <<NumCol("age", x), ObjCol("category", o)>>) : x \in LibNum(n), o \in LibObj(n)}
    \cup {MkTable(n, <<ObjCol("category", o), NumCol("age", x)>>) : x \in LibNum(n), o \in LibObj(n)}
    : n \in 1..MaxRows}

\* long one-column Tables: k leading holes, then one value, m trailing others
LongNum(n, k, m) ==
  [i \in 1..n |-> IF i <= k THEN Null ELSE IF i > n - m THEN NumInt(4) ELSE NumInt(0)]
LongObj(n, k, m) ==
  [i \in 1..n |-> IF i <= k THEN Null ELSE IF i > n - m THEN Str("b") ELSE Str("a")]

LongTables ==
  UNION {
    {MkTable(n, <<NumCol("age", LongNum(n, k, m))>>) : k \in 0..(n - 1), m \in 0..1}
    \cup {MkTable(n, <<ObjCol("category", LongObj(n, k, m))>>) : k \in 0..(n - 1), m \in 0..1}
    : n \in (LongRows - 1)..LongRows}

\* a file with a header and no row: every column is read as object
EmptyTables == {MkTable(0, <<ObjCol("category", <<>>)>>),
                MkTable(0, <<ObjCol("category", <<>>), ObjCol("age", <<>>)>>),
                MkTable(0, <<NumCol("age", <<>>)>>)}

\* the columns age and income of the analyzer test's frame, income in
\* thousands (counts, quartile fences and standard scores do not depend on
\* the unit)
ScenarioTable ==
  MkTable(6, <<NumCol("age", <<NumInt(25), NumInt(30), Null, NumInt(45), NumInt(150), NumInt(35)>>),
               NumCol("income", <<NumInt(50), NumInt(60), NumInt(55), Null, NumInt(70), NumInt(65)>>)>>)

\* the whole frame of the analyzer's test: age, income (in thousands),
\* category and score
AnalyzerTestTable ==
  MkTable(6, ScenarioTable.cols \o
             <<ObjCol("category", <<Str("A"), Str("B"), Str("A"), Str("B"), Str("A"), Str("A")>>),
               [name |-> "score", dtype |-> "float64",
                vals |-> <<Num(855, 10), Num(902, 10), Num(881, 10), Num(925, 10), Num(878, 10),
                           Num(893, 10)>>]>>)

\* LongRows values of one numeric column: zeros and ones, then a 2 that no
\* statistical detector flags, then a 4 that lies outside the quartile
\* fences and more than 3 standard deviations from the mean
OutlierTable ==
  MkTable(LongRows, <<NumCol("age", [i \in 1..LongRows |->
                                      IF i = LongRows THEN NumInt(4)
                                      ELSE IF i = LongRows - 1 THEN NumInt(2)
                                      ELSE NumInt(i % 2)])>>)

\* a text column of numeric strings with one word among them, beside a
\* column that keeps the rows distinct
MixedTable ==
  MkTable(6, <<NumCol("age", [i \in 1..6 |-> NumInt(i - 1)]),
               ObjCol("category", [i \in 1..6 |-> IF i < 6 THEN Str("7") ELSE Str("a")])>>)

\* n rows told apart by the pair (age, income), the last one a copy of the
\* first: one exact duplicate among n rows
DuplicateTable(n) ==
  LET key(i) == IF i = n THEN 0 ELSE i - 1
  IN MkTable(n, <<NumCol("age", [i \in 1..n |-> NumInt(key(i) \div 10)]),
                  NumCol("income", [i \in 1..n |-> NumInt(key(i) % 10)])>>)

\* the same over seven text columns of "a" and "b", for more rows
TextDuplicateTable(n) ==
  LET key(i)   == IF i = n THEN 0 ELSE i - 1
      Pow2     == <<1, 2, 4, 8, 16, 32, 64>>
      Names    == <<"c1", "c2", "c3", "c4", "c5", "c6", "c7">>
      bit(i, j) == (key(i) \div Pow2[j]) % 2
  IN MkTable(n, [j \in 1..7 |->
                   ObjCol(Names[j], [i \in 1..n |-> IF bit(i, j) = 0 THEN Str("a") ELSE Str("b")])])

\* one duplicate at 20%, just over 10%, 10%, just under 10%, 1% and just
\* under 1%
DuplicateTables == {DuplicateTable(n) : n \in {5, 9, 10, 11}}
                   \cup {TextDuplicateTable(n) : n \in {100, 101}}

Tables == SmallTables \cup LongTables \cup EmptyTables \cup DuplicateTables
          \cup {ScenarioTable, AnalyzerTestTable, MixedTable, OutlierTable}

\* ------------------------------------------------- report serialization
\* A Python value of a report: ty is its type, nan whether a float is
\* not-a-number, n its number, items the members of a container.
Leaf(ty, nan, n) == [ty |-> ty, nan |-> nan, n |-> n, items |-> <<>>]
Box(ty, items) == [ty |-> ty, nan |-> FALSE, n |-> 0, items |-> items]

PyNone == Leaf("NoneType", FALSE, 0)

Containers == {"dict", "list", "tuple"}
NpIntegers == {"np.int64", "np.int32"}
NpFloatings == {"np.float64", "np.float32"}

\* pd.isna on a scalar: None, a float NaN, pd.NA, pd.NaT
PdIsNa(o) == o.ty \in {"NoneType", "NAType", "NaTType"} \/ (o.ty = "float" /\ o.nan)

\* ndarray.tolist() / .item(): the Python scalar of a library scalar, a NaN
\* staying a NaN
Item(o) ==
  IF o.ty \in NpIntegers THEN Leaf("int", FALSE, o.n)
  ELSE IF o.ty \in NpFloatings THEN Leaf("float", o.nan, o.n)
  ELSE IF o.ty = "np.bool_" THEN Leaf("bool", FALSE, o.n)
  ELSE o

\* _make_json_serializable, the same code in both services
RECURSIVE MakeJsonSerializable(_)
MakeJsonSerializable(o) ==
  IF o.ty \in Containers
  THEN Box(o.ty, [i \in 1..Len(o.items) |-> MakeJsonSerializable(o.items[i])])
  ELSE IF o.ty \in NpIntegers THEN Leaf("int", FALSE, o.n)
  ELSE IF o.ty \in NpFloatings THEN Leaf("float", o.nan, o.n)
  ELSE IF o.ty = "np.ndarray" THEN Box("list", [i \in 1..Len(o.items) |-> Item(o.items[i])])
  ELSE IF o.ty = "np.dtype" THEN Leaf("str", FALSE, 0)
  ELSE IF PdIsNa(o) THEN PyNone
  ELSE IF o.ty = "np.bool_" THEN Item(o)
  ELSE o

\* scalars a report can hold
Scalars ==
  {Leaf("int", FALSE, 1), Leaf("float", FALSE, 1), Leaf("float", TRUE, 0), PyNone,
   Leaf("NAType", FALSE, 0), Leaf("str", FALSE, 0), Leaf("np.int64", FALSE, 1),
   Leaf("np.float64", FALSE, 1), Leaf("np.float64", TRUE, 0), Leaf("np.bool_", FALSE, 1),
   Leaf("np.dtype", FALSE, 0)}

\* arrays of library floats
Arrays ==
  {Box("np.ndarray", <<Leaf("np.float64", FALSE, 1)>>),
   Box("np.ndarray", <<Leaf("np.float64", FALSE, 1), Leaf("np.float64", TRUE, 0)>>)}

\* the values handed to the serializer: scalars, arrays, containers of up to
\* MaxItems of them, and containers of one container
Flat(c) == UNION {{Box(c, f) : f \in [1..k -> Scalars \cup Arrays]} : k \in 0..MaxItems}
Objects ==
  Scalars \cup Arrays
  \cup UNION {Flat(c) : c \in Containers}
  \cup {Box(c, <<Box(d, <<x>>)>>) : c \in Containers, d \in Containers, x \in Scalars \cup Arrays}

\* ------------------------------------------------------- background jobs
\* output_file_path NULL
NoPath == <<>>

\* a ProcessingJob row; results is the set of outputs stored in the row
\* ({} is null); created is the submission that inserted the row (created_at)
NoJob == [dataset_id |-> 0, job_type |-> "none", status |-> "none", results |-> {},
          error_message |-> "", output_file_path |-> NoPath, progress |-> 0, created |-> 0]

\* ProcessingJob(dataset_id=..., job_type=..., status="pending")
NewJob(dataset_id, job_type, n) ==
  [NoJob EXCEPT !.dataset_id = dataset_id, !.job_type = job_type, !.status = "pending",
                !.created = n]

\* what a task has loaded of its job row: nothing yet
NoSeen == [status |-> "none", error_message |-> ""]

\* a background task: the function queued (run_analysis for "analyze",
\* run_cleaning for "clean"), the job id and the dataset id it was given,
\* where it is, the columns of the job row it loaded last (seen), the status
\* and the file of the Dataset object it loaded (found, file), the outputs
\* it holds in memory, the exception it caught
NoWorker == [pc |-> "idle", task |-> "", job_id |-> 0, dataset_id |-> 0, seen |-> NoSeen,
             found |-> "", file |-> 0, computed |-> {}, error |-> ""]

\* a Dataset row: status "uploaded" when created, file the name it was
\* stored under (filename, file_path); no row before the upload commits and
\* once deleted
NoDataset == [exists |-> FALSE, status |-> "none", file |-> 0]

\* an upload_dataset request: not made yet, or suspended at await
\* file.read() with the file open for writing under the name file (linked:
\* the open file is still the one at that path), or past the write of the
\* content ("written"), or answered
NoUpload == [pc |-> "none", file |-> 0, linked |-> FALSE]

\* the request being served: none, or the endpoint that is between its
\* query and its commit, with the id it was given, the status it read and
\* the paths it has still to remove
NoRequest == [endpoint |-> "none", job_id |-> 0, dataset_id |-> 0, found |-> "",
              paths |-> <<>>]

MustAnalyzeFirst == "Dataset must be analyzed before cleaning. Please run analysis first."
Unexpected == "unexpected"

\* if dataset.status not in ["analyzed", "cleaned"]: raise ValueError(...)
CleanableStatuses == {"analyzed", "cleaned"}

\* if job.status not in ["pending", "running"]: rejected
CancellableStatuses == {"pending", "running"}

\* allowed_extensions = ['.csv', '.xlsx', '.xls', '.parquet']
AllowedExtensions == {".csv", ".xlsx", ".xls", ".parquet"}

\* MAX_FILE_SIZE: int = 100 * 1024 * 1024
MAX_FILE_SIZE == 104857600

\* os.path.splitext(file.filename)[1].lower() on the extensions uploaded
Lower(extension) ==
  CASE extension = ".CSV" -> ".csv"
    [] extension = ".Xls" -> ".xls"
    [] OTHER -> extension

\* the files a client sends: extension of the file name and size
UploadFiles == [extension : {".csv", ".CSV", ".Xls", ".txt"},
                size : {MAX_FILE_SIZE, MAX_FILE_SIZE + 1}]

\* file_path = os.path.join(settings.UPLOAD_DIR, f"{timestamp}_{file.filename}"):
\* the path of the file stored under name n
UploadedFile(n) == <<"upload", n>>

\* output_path = os.path.join(settings.UPLOAD_DIR, f"cleaned_{dataset.filename}")
OutputFile(n) == <<"cleaned", n>>

\* ------------------------------------------------------------------- state
VARIABLES input, analysis_results, df, cleaning_results, imputers, encoders, scalers, pc,
          caller, calls, saved
VARIABLES jobs, datasets, workers, files, empty, uploads, response, submitted, served, request,
          obj, out

\* input is the Table as it was handed over; caller.df is the caller's Table
\* object as it is now, caller.same whether the pipeline's working frame is
\* that very object; calls counts the clean_dataset calls on the instance;
\* saved is the content of the pipeline file the instance wrote
\* jobs and datasets are the rows of the service by id, files the paths on
\* disk that hold data and empty the paths on disk opened for writing and
\* not written yet, uploads the upload requests in the order of their
\* arrival, workers the background tasks in the order of their submission,
\* request the request being served, response the status code of the last
\* answered request, submitted the number of jobs created, served the
\* number of cancel, synchronous-analysis and delete requests received
\* (at most MaxRequests); obj is a value handed to the report serializer
\* and out what it returned
pipeline == <<input, analysis_results, df, cleaning_results, imputers, encoders, scalers, pc,
              caller, calls, saved>>
service == <<jobs, datasets, workers, files, empty, uploads, response, submitted, served,
             request>>
serializer == <<obj, out>>
vars == <<pipeline, service, serializer>>

\* no pipeline file written yet
NoFile == [present |-> FALSE, imputers |-> <<>>, encoders |-> {}, scalers |-> {}]

Unset == Leaf("unset", FALSE, 0)

\* one dataset uploaded (the first upload, stored under name 1), no job
\* yet, no request being served
ServiceIdle ==
  /\ jobs = [id \in 1..MaxJobs |-> NoJob]
  /\ datasets = [id \in 1..MaxUploads |->
                   IF id = 1 THEN [exists |-> TRUE, status |-> "uploaded", file |-> 1]
                   ELSE NoDataset]
  /\ workers = [n \in 1..MaxJobs |-> NoWorker]
  /\ files = {UploadedFile(1)}
  /\ empty = {}
  /\ uploads = [u \in 1..MaxUploads |->
                  IF u = 1 THEN [NoUpload EXCEPT !.pc = "closed", !.file = 1] ELSE NoUpload]
  /\ response = 0
  /\ submitted = 0
  /\ served = 0
  /\ request = NoRequest

\* nothing serialized
SerializerIdle ==
  /\ obj = PyNone
  /\ out = Unset

\* mutant: the pipeline works on the caller's object
DataFrameNoCopy(t) == [frame |-> t, same |-> TRUE]

\* df.copy(): a new object with the same content
DataFrameCopy(t) == [frame |-> t, same |-> FALSE]

\* a stage assigning into its frame (df[col] = ..., inplace=True)
InPlace(new) == IF caller.same THEN [caller EXCEPT !.df = new] ELSE caller

\* a stage returning a new frame (df.drop(index=...), df.drop_duplicates())
Rebound == [caller EXCEPT !.same = FALSE]

None == [present |-> FALSE]

NoTreatment == [set |-> FALSE, outliers_removed |-> 0, outliers_capped |-> 0,
                columns_processed |-> <<>>]

EmptyResults ==
  [original_shape    |-> <<0, 0>>,
   cleaning_steps    |-> <<>>,
   columns_imputed   |-> <<>>,
   methods_used      |-> <<>>,
   outlier_treatment |-> NoTreatment,
   type_conversions  |-> <<>>,
   scaling           |-> <<>>,
   encoding          |-> {},
   has_final         |-> FALSE,
   final_shape       |-> <<0, 0>>,
   rows_removed      |-> 0]

Init ==
  /\ input \in Tables
  /\ analysis_results = None
  /\ df = input
  /\ cleaning_results = EmptyResults
  /\ imputers = <<>>
  /\ encoders = {}
  /\ scalers = {}
  /\ pc = "start"
  /\ caller = [df |-> input, same |-> FALSE]
  /\ calls = 0
  /\ saved = NoFile
  /\ ServiceIdle
  /\ SerializerIdle

\* analyzer.analyze_dataset(df)
AnalyzeDatasetStep ==
  /\ pc = "start"
  /\ \E ml \in MLOutcomes(input) : analysis_results' = AnalyzeDataset(input, ml)
  /\ pc' = "analyzed"
  /\ UNCHANGED <<input, df, cleaning_results, imputers, encoders, scalers, caller, calls, saved,
               service, serializer>>

\* clean_dataset(df, analysis_results): the reset of cleaning_results and df.copy()
CleanDataset ==
  /\ pc \in {"start", "analyzed"}
  /\ cleaning_results' = [EmptyResults EXCEPT !.original_shape = Shape(input)]
  /\ LET copy == DataFrameCopy(input)
     IN /\ df' = copy.frame
        /\ caller' = [df |-> input, same |-> copy.same]
  /\ calls' = calls + 1
  /\ pc' = "missing"
  /\ UNCHANGED <<input, analysis_results, imputers, encoders, scalers, saved,
               service, serializer>>

MissingData(t, report) ==
  IF report.present THEN report.missing_data ELSE AnalyzeMissingData(t)

HandleMissingData ==
  /\ pc = "missing"
  /\ \E st \in MissingLoop([df |-> df, raised |-> FALSE, imputers |-> imputers,
                            columns_imputed |-> <<>>, methods_used |-> <<>>,
                            steps |-> cleaning_results.cleaning_steps],
                           ColNames(df), MissingData(df, analysis_results)) :
        /\ df' = st.df
        /\ imputers' = st.imputers
        /\ cleaning_results' = [cleaning_results EXCEPT
                                  !.cleaning_steps  = st.steps,
                                  !.columns_imputed = st.columns_imputed,
                                  !.methods_used    = st.methods_used]
        /\ caller' = InPlace(st.df)
        /\ pc' = IF st.raised THEN "raised" ELSE "outliers"
  /\ UNCHANGED <<input, analysis_results, encoders, scalers, calls, saved,
               service, serializer>>

\* _handle_outliers up to the end of the row removal
HandleOutliersRemove ==
  /\ pc = "outliers"
  /\ IF OutliersSkipped(analysis_results)
     THEN /\ pc' = "duplicates"
          /\ UNCHANGED <<df, cleaning_results, caller>>
     ELSE LET idx == OutlierIndices(analysis_results)
          IN /\ df' = DropIndex(df, idx)
             /\ caller' = IF idx # {} THEN Rebound ELSE caller
             /\ cleaning_results' = [cleaning_results EXCEPT
                  !.outlier_treatment = [NoTreatment EXCEPT
                       !.set = TRUE, !.outliers_removed = Cardinality(idx)],
                  !.cleaning_steps = IF idx # {}
                       THEN Append(@, Step("removed_outliers", "", Cardinality(idx), ""))
                       ELSE @]
             /\ pc' = "cap"
  /\ UNCHANGED <<input, analysis_results, imputers, encoders, scalers, calls, saved,
               service, serializer>>

\* _handle_outliers, the capping loop over the numeric columns
HandleOutliersCap ==
  /\ pc = "cap"
  /\ LET st == CapLoop([df |-> df, capped |-> 0, columns_processed |-> <<>>,
                        steps |-> cleaning_results.cleaning_steps], NumericCols(df))
     IN /\ df' = st.df
        /\ caller' = InPlace(st.df)
        /\ cleaning_results' = [cleaning_results EXCEPT
             !.outlier_treatment.outliers_capped = st.capped,
             !.outlier_treatment.columns_processed = st.columns_processed,
             !.cleaning_steps = st.steps]
  /\ pc' = "duplicates"
  /\ UNCHANGED <<input, analysis_results, imputers, encoders, scalers, calls, saved,
               service, serializer>>

RemoveDuplicates ==
  /\ pc = "duplicates"
  /\ df' = DropDuplicates(df)
  /\ caller' = Rebound
  /\ cleaning_results' = [cleaning_results EXCEPT
                            !.cleaning_steps = @ \o DuplicateSteps(df)]
  /\ pc' = "types"
  /\ UNCHANGED <<input, analysis_results, imputers, encoders, scalers, calls, saved,
               service, serializer>>

StandardizeDataTypes ==
  /\ pc = "types"
  /\ LET st == TypesLoop([df |-> df, type_conversions |-> <<>>,
                          steps |-> cleaning_results.cleaning_steps], ColNames(df))
     IN /\ df' = st.df
        /\ caller' = InPlace(st.df)
        /\ cleaning_results' = [cleaning_results EXCEPT
             !.type_conversions = st.type_conversions,
             !.cleaning_steps = st.steps]
  /\ pc' = "inconsistencies"
  /\ UNCHANGED <<input, analysis_results, imputers, encoders, scalers, calls, saved,
               service, serializer>>

HandleInconsistencies ==
  /\ pc = "inconsistencies"
  /\ df' = HandleInconsistenciesDf(df)
  /\ caller' = InPlace(HandleInconsistenciesDf(df))
  /\ pc' = "transform"
  /\ UNCHANGED <<input, analysis_results, cleaning_results, imputers, encoders, scalers, calls, saved,
               service, serializer>>

\* _apply_transformations and the tail of clean_dataset (final_shape, rows_removed)
ApplyTransformations ==
  /\ pc = "transform"
  /\ IF ScalerRaises(df)
     THEN /\ pc' = "raised"
          /\ UNCHANGED <<df, cleaning_results, encoders, scalers, caller>>
     ELSE LET numeric == NumericCols(df)
              scaled  == IF Len(numeric) > 0 THEN ScaleNumeric(df) ELSE df
              steps1  == IF Len(numeric) > 0
                         THEN Append(cleaning_results.cleaning_steps,
                                     Step("scaled", "", Len(numeric), ""))
                         ELSE cleaning_results.cleaning_steps
          IN \E st \in {EncodeLoop([df |-> scaled, encoders |-> encoders, steps |-> steps1],
                                   CategoricalCols(scaled))} :
             /\ df' = st.df
             /\ caller' = InPlace(st.df)
             /\ scalers' = IF Len(numeric) > 0 THEN scalers \cup {"numeric"} ELSE scalers
             /\ encoders' = st.encoders
             /\ cleaning_results' = [cleaning_results EXCEPT
                  !.scaling = numeric,
                  !.encoding = {st.steps[i].col : i \in (Len(steps1) + 1)..Len(st.steps)},
                  !.cleaning_steps = st.steps,
                  !.has_final = TRUE,
                  !.final_shape = Shape(st.df),
                  !.rows_removed = cleaning_results.original_shape[1] - NRows(st.df)]
             /\ pc' = "done"
  /\ UNCHANGED <<input, analysis_results, imputers, calls, saved,
               service, serializer>>

Next ==
  \/ AnalyzeDatasetStep
  \/ CleanDataset
  \/ HandleMissingData
  \/ HandleOutliersRemove
  \/ HandleOutliersCap
  \/ RemoveDuplicates
  \/ StandardizeDataTypes
  \/ HandleInconsistencies
  \/ ApplyTransformations

Spec == Init /\ [][Next]_vars

\* ------------------------------------------- one instance, several calls
MaxCalls == 2

\* Tables handed to one AutoDataCleaner one after the other: numeric columns
\* with nulls, a numeric and a text column, and a text column alone
RerunTables ==
  {ScenarioTable, MixedTable,
   MkTable(LongRows, <<ObjCol("category", LongObj(LongRows, 1, 1))>>)}

RerunInit == Init /\ input \in RerunTables

\* the caller comes back to the same instance with another Table; __init__
\* does not run again, so what the instance holds stays
CallAgain ==
  /\ pc \in {"done", "raised"}
  /\ calls < MaxCalls
  /\ \E t \in RerunTables :
       /\ input' = t
       /\ df' = t
       /\ caller' = [df |-> t, same |-> FALSE]
  /\ analysis_results' = None
  /\ pc' = "start"
  /\ UNCHANGED <<cleaning_results, imputers, encoders, scalers, calls, saved,
               service, serializer>>

\* save_cleaning_pipeline: the fitted state written to the file
SaveCleaningPipeline ==
  /\ pc \in {"start", "analyzed", "done", "raised"}
  /\ saved' = [present |-> TRUE, imputers |-> imputers, encoders |-> encoders,
               scalers |-> scalers]
  /\ UNCHANGED <<input, analysis_results, df, cleaning_results, imputers, encoders, scalers, pc,
               caller, calls, service, serializer>>

\* load_cleaning_pipeline: the fitted state replaced by the file's (joblib.load
\* raises when there is no file, and nothing is assigned)
LoadCleaningPipeline ==
  /\ pc \in {"start", "analyzed", "done", "raised"}
  /\ saved.present
  /\ imputers' = saved.imputers
  /\ encoders' = saved.encoders
  /\ scalers' = saved.scalers
  /\ UNCHANGED <<input, analysis_results, df, cleaning_results, pc, caller, calls, saved,
               service, serializer>>

RerunNext == Next \/ CallAgain \/ SaveCleaningPipeline \/ LoadCleaningPipeline

RerunSpec == RerunInit /\ [][RerunNext]_vars

\* ----------------------------------------------- the serializer at work
\* the pipeline before any table was handed to it, beside the services
PipelineIdle ==
  /\ input = MkTable(0, <<>>)
  /\ analysis_results = None
  /\ df = input
  /\ cleaning_results = EmptyResults
  /\ imputers = <<>>
  /\ encoders = {}
  /\ scalers = {}
  /\ pc = "start"
  /\ caller = [df |-> input, same |-> FALSE]
  /\ calls = 0
  /\ saved = NoFile

SerializerInit ==
  /\ PipelineIdle
  /\ ServiceIdle
  /\ obj \in Objects
  /\ out = Unset

\* serializable_results = _make_json_serializable(results)
Serialize ==
  /\ out = Unset
  /\ out' = MakeJsonSerializable(obj)
  /\ UNCHANGED <<obj, pipeline, service>>

SerializerNext == Serialize

SerializerSpec == SerializerInit /\ [][SerializerNext]_vars

\* ------------------------------------------------- the services at work
JobIds == 1..MaxJobs
Tasks == 1..MaxJobs
DatasetIds == 1..MaxUploads
Uploads == 1..MaxUploads
JobTypes == {"analyze", "clean"}

ServiceInit ==
  /\ PipelineIdle
  /\ ServiceIdle
  /\ SerializerIdle

\* the endpoints are coroutines on one event loop: but for upload_dataset
\* at its await file.read(), none has an await between its first statement
\* and its return, so that they are served one at a time (none while a
\* request is between its query and its commit, or an upload between its
\* write and its answer), while the background tasks run in threads
\* beside them
Idle == request = NoRequest /\ \A u \in DOMAIN uploads : uploads[u].pc # "written"

\* id = Column(Integer, primary_key=True) on the default SQLite database:
\* a new row gets the largest id of the table plus one, so that the id of a
\* deleted row is given again
NextJobId ==
  LET used == {id \in JobIds : jobs[id] # NoJob}
  IN  IF used = {} THEN 1 ELSE (CHOOSE id \in used : \A other \in used : other <= id) + 1

NextDatasetId ==
  LET used == {id \in DatasetIds : datasets[id].exists}
  IN  IF used = {} THEN 1 ELSE (CHOOSE id \in used : \A other \in used : other <= id) + 1

\* a path is removed from disk: an upload that holds it open goes on
\* writing to a file no path names
Unlinked(path) ==
  [u \in Uploads |-> IF uploads[u].pc = "open" /\ UploadedFile(uploads[u].file) = path
                     THEN [uploads[u] EXCEPT !.linked = FALSE] ELSE uploads[u]]

\* POST /datasets/upload up to await file.read(): 400 for an extension
\* that is not allowed and for a file that is too large; else the file is
\* opened for writing (created, or emptied when an upload of the same
\* second and file name has made it) and the request is suspended, the
\* event loop serving other requests
UploadDatasetOpen ==
  /\ Idle
  /\ \E u \in Uploads :
       /\ uploads[u].pc = "none"
       /\ \A v \in 1..(u - 1) : uploads[v].pc # "none"
       /\ \E file \in UploadFiles :
            IF Lower(file.extension) \notin AllowedExtensions \/ file.size > MAX_FILE_SIZE
            THEN /\ response' = 400
                 /\ UNCHANGED <<files, empty, uploads>>
            ELSE \E name \in {u} \cup {uploads[v].file : v \in 1..(u - 1)} :
                   /\ files' = files \ {UploadedFile(name)}
                   /\ empty' = empty \cup {UploadedFile(name)}
                   /\ uploads' = [uploads EXCEPT ![u] = [pc |-> "open", file |-> name,
                                                         linked |-> TRUE]]
                   /\ response' = response
  /\ UNCHANGED <<jobs, datasets, workers, submitted, served, request, pipeline, serializer>>

\* POST /datasets/upload from await file.read() to the end of the with
\* block: the content is written to the open file and the file closed.
\* From here to its answer the request has no await, so that no other
\* request is served, while the background tasks run on and can read the
\* file
UploadDatasetWrite ==
  /\ Idle
  /\ \E u \in Uploads :
       /\ uploads[u].pc = "open"
       /\ LET path == UploadedFile(uploads[u].file)
          IN  /\ files' = IF uploads[u].linked THEN files \cup {path} ELSE files
              /\ empty' = IF uploads[u].linked THEN empty \ {path} ELSE empty
              /\ uploads' = [uploads EXCEPT ![u].pc = "written", ![u].linked = FALSE]
  /\ UNCHANGED <<jobs, datasets, workers, response, submitted, served, request, pipeline,
                 serializer>>

\* POST /datasets/upload from DatasetService.read_file(file_path) on: the
\* file at file_path is read and the dataset row committed with status
\* uploaded, answered 200; or an exception (the file at the path is gone
\* or empty, or any other) is answered 500, after os.remove of whatever
\* file is at file_path, which stays when os.remove raises in its turn
UploadDataset ==
  /\ request = NoRequest
  /\ \E u \in Uploads :
       /\ uploads[u].pc = "written"
       /\ LET path == UploadedFile(uploads[u].file)
          IN  \/ /\ path \in files
                 /\ datasets' = [datasets EXCEPT ![NextDatasetId] =
                                   [exists |-> TRUE, status |-> "uploaded",
                                    file |-> uploads[u].file]]
                 /\ uploads' = [uploads EXCEPT ![u].pc = "closed"]
                 /\ response' = 200
                 /\ UNCHANGED <<files, empty>>
              \/ /\ datasets' = datasets
                 /\ files' = files \ {path}
                 /\ empty' = empty \ {path}
                 /\ uploads' = [Unlinked(path) EXCEPT ![u].pc = "closed"]
                 /\ response' = 500
              \/ /\ path \in files \cup empty
                 /\ uploads' = [uploads EXCEPT ![u].pc = "closed"]
                 /\ response' = 500
                 /\ UNCHANGED <<datasets, files, empty>>
  /\ UNCHANGED <<jobs, workers, submitted, served, request, pipeline, serializer>>

\* POST /{dataset_id}/analyze and /{dataset_id}/clean: 404 without the
\* dataset row; else the job row is committed as pending and the background
\* task queued, whatever the other jobs of the dataset are doing
SubmitJob ==
  /\ Idle
  /\ submitted < MaxJobs
  /\ \E dataset_id \in DatasetIds :
       IF ~datasets[dataset_id].exists
       THEN /\ response' = 404
            /\ UNCHANGED <<jobs, workers, submitted>>
       ELSE /\ \E job_type \in JobTypes :
                 /\ jobs' = [jobs EXCEPT ![NextJobId] =
                               NewJob(dataset_id, job_type, submitted + 1)]
                 /\ workers' = [workers EXCEPT ![submitted + 1] =
                                  [NoWorker EXCEPT !.pc = "queued", !.task = job_type,
                                                   !.job_id = NextJobId,
                                                   !.dataset_id = dataset_id]]
            /\ submitted' = submitted + 1
            /\ response' = 200
  /\ UNCHANGED <<datasets, files, empty, uploads, served, request, pipeline, serializer>>

\* POST /{dataset_id}/analyze/sync, the query: 404 without the dataset row
AnalyzeDatasetSyncRead ==
  /\ Idle
  /\ served < MaxRequests
  /\ served' = served + 1
  /\ \E dataset_id \in DatasetIds :
       IF ~datasets[dataset_id].exists
       THEN response' = 404 /\ request' = request
       ELSE /\ response' = response
            /\ request' = [NoRequest EXCEPT !.endpoint = "analyze_dataset_sync",
                                            !.dataset_id = dataset_id,
                                            !.found = datasets[dataset_id].status]
  /\ UNCHANGED <<jobs, datasets, workers, files, empty, uploads, submitted, pipeline,
                 serializer>>

\* POST /{dataset_id}/analyze/sync, the analysis and the commit: the
\* background tasks run on while the request analyses the file; the status
\* is assigned to the Dataset object the query loaded, and the UPDATE
\* carries it only when it differs from the status loaded. An exception
\* before the commit (the file is gone or empty, or any other) is answered
\* 500 with the row as it was; one after the commit, while the response is
\* built from the row, is answered 500 with the row updated
AnalyzeDatasetSync ==
  /\ request.endpoint = "analyze_dataset_sync"
  /\ \/ /\ UploadedFile(datasets[request.dataset_id].file) \in files
        /\ response' \in {200, 500}
        /\ datasets' = IF request.found # "analyzed"
                       THEN [datasets EXCEPT ![request.dataset_id].status = "analyzed"]
                       ELSE datasets
     \/ response' = 500 /\ datasets' = datasets
  /\ request' = NoRequest
  /\ UNCHANGED <<jobs, workers, files, empty, uploads, submitted, served, pipeline, serializer>>

\* a step of task n that touches nothing but the task
Moves(n, new) ==
  /\ workers' = [workers EXCEPT ![n] = new]
  /\ UNCHANGED <<jobs, datasets, files, empty, uploads, response, submitted, served, request,
                 pipeline, serializer>>

\* the function returns: its local variables are gone
Done(w) == [NoWorker EXCEPT !.pc = "returned", !.task = w.task, !.job_id = w.job_id]

\* a step of the try body: it returns its output, or raises
Returned(w, output, next) == [w EXCEPT !.pc = next, !.computed = @ \cup {output}]
Raised(w, error) == [w EXCEPT !.pc = "except", !.error = error, !.seen = NoSeen]

\* the columns of a job row a task compares its assignments with
Seen(row) == [status |-> row.status, error_message |-> row.error_message]

\* job = db.query(ProcessingJob).filter(ProcessingJob.id == job_id).first()
\* (None once the row was deleted: the assignment that follows raises). The
\* session is the one of the request that queued the task: when it still
\* holds the job object that request refreshed, the status the task sees
\* is the pending of that refresh, else it is the status of the row
LoadJob(n) ==
  /\ workers[n].pc = "queued"
  /\ IF jobs[workers[n].job_id] = NoJob
     THEN Moves(n, Raised(workers[n], Unexpected))
     ELSE \E status \in {jobs[workers[n].job_id].status, "pending"} :
            Moves(n, [workers[n] EXCEPT
                        !.pc = "start",
                        !.seen = [Seen(jobs[workers[n].job_id]) EXCEPT !.status = status]])

\* job.status = "running"; job.started_at = datetime.now(); db.commit():
\* the UPDATE goes to the row that has the id now, and carries the status
\* only when it differs from the status loaded; it raises when no row has
\* the id any more
StartJob(n) ==
  /\ workers[n].pc = "start"
  /\ IF jobs[workers[n].job_id] = NoJob
     THEN /\ workers' = [workers EXCEPT ![n] = Raised(@, Unexpected)]
          /\ jobs' = jobs
     ELSE /\ jobs' = IF workers[n].seen.status # "running"
                     THEN [jobs EXCEPT ![workers[n].job_id].status = "running"] ELSE jobs
          /\ workers' = [workers EXCEPT ![n].pc = "get", ![n].seen = NoSeen]
  /\ UNCHANGED <<datasets, files, empty, uploads, response, submitted, served, request, pipeline,
                 serializer>>

\* dataset = db.query(Dataset).filter(Dataset.id == dataset_id).first()
\* (None without the row: the attribute read that follows raises), and in
\* run_cleaning the test that the dataset has been analyzed
GetDataset(n) ==
  LET dataset == datasets[workers[n].dataset_id]
  IN  /\ workers[n].pc = "get"
      /\ Moves(n, IF ~dataset.exists THEN Raised(workers[n], Unexpected)
                  ELSE IF workers[n].task = "clean" /\ dataset.status \notin CleanableStatuses
                  THEN [Raised(workers[n], MustAnalyzeFirst) EXCEPT !.found = dataset.status,
                                                                    !.file = dataset.file]
                  ELSE [workers[n] EXCEPT !.pc = "read", !.found = dataset.status,
                                          !.file = dataset.file])

\* df = DatasetService.read_file(dataset.file_path): the file of the
\* Dataset object loaded; it raises when the file is gone or empty
ReadFile(n) ==
  /\ workers[n].pc = "read"
  /\ \/ /\ UploadedFile(workers[n].file) \in files
        /\ Moves(n, Returned(workers[n], "df", "analyze"))
     \/ Moves(n, Raised(workers[n], Unexpected))

\* analyzer.analyze_dataset(df)
RunAnalyzer(n) ==
  /\ workers[n].pc = "analyze"
  /\ \/ Moves(n, Returned(workers[n], "analysis_results",
                          IF workers[n].task = "clean" THEN "clean" ELSE "serialize"))
     \/ Moves(n, Raised(workers[n], Unexpected))

\* cleaner.clean_dataset(df, analysis_results)
RunCleaner(n) ==
  /\ workers[n].pc = "clean"
  /\ \/ Moves(n, Returned(workers[n], "cleaned_df", "save"))
     \/ Moves(n, Raised(workers[n], Unexpected))

\* DatasetService.save_file(cleaned_df, output_path)
SaveFile(n) ==
  /\ workers[n].pc = "save"
  /\ \/ /\ workers' = [workers EXCEPT ![n] = Returned(@, "output_file", "serialize")]
        /\ files' = files \cup {OutputFile(workers[n].file)}
     \/ /\ workers' = [workers EXCEPT ![n] = Raised(@, Unexpected)]
        /\ files' = files
  /\ UNCHANGED <<jobs, datasets, empty, uploads, response, submitted, served, request, pipeline,
                 serializer>>

\* the summary or report made JSON-serializable
SerializeResults(n) ==
  /\ workers[n].pc = "serialize"
  /\ \/ Moves(n, Returned(workers[n], "serializable", "finish"))
     \/ Moves(n, Raised(workers[n], Unexpected))

\* the job row completed and the dataset status set, in one commit. The
\* job's attributes were expired by the first commit, so all that is
\* assigned is written, to the row that has the id now; the dataset status
\* is assigned to the Dataset object loaded and is written, to the row that
\* has the id now, only when it differs from the status loaded. The commit
\* raises when a row it updates is gone, and may raise besides.
FinishJob(n) ==
  LET w == workers[n]
      status == IF w.task = "clean" THEN "cleaned" ELSE "analyzed"
  IN  /\ w.pc = "finish"
      /\ \/ /\ jobs[w.job_id] # NoJob
            /\ w.found # status => datasets[w.dataset_id].exists
            /\ jobs' = [jobs EXCEPT ![w.job_id] =
                          [@ EXCEPT !.status = "completed",
                                    !.results = {IF w.task = "clean" THEN "cleaning_summary"
                                                 ELSE "analysis_results"},
                                    !.output_file_path = IF w.task = "clean"
                                                         THEN OutputFile(w.file) ELSE @,
                                    !.progress = 100]]
            /\ datasets' = IF w.found # status
                           THEN [datasets EXCEPT ![w.dataset_id].status = status]
                           ELSE datasets
            /\ workers' = [workers EXCEPT ![n] = Done(@)]
         \/ /\ workers' = [workers EXCEPT ![n] = Raised(@, Unexpected)]
            /\ UNCHANGED <<jobs, datasets>>
      /\ UNCHANGED <<files, empty, uploads, response, submitted, served, request, pipeline,
                     serializer>>

\* except Exception: db.rollback(); the job row is queried again; without
\* the row nothing is written
ReloadJob(n) ==
  /\ workers[n].pc = "except"
  /\ Moves(n, IF jobs[workers[n].job_id] = NoJob THEN Done(workers[n])
              ELSE [workers[n] EXCEPT !.pc = "record", !.seen = Seen(jobs[workers[n].job_id])])

\* job.status = "failed"; job.error_message = str(e); db.commit(): the
\* UPDATE carries the columns that differ from the row loaded; an UPDATE
\* that finds no row raises, which the inner except swallows
RecordFailure(n) ==
  LET w == workers[n]
  IN  /\ w.pc = "record"
      /\ jobs' = IF jobs[w.job_id] = NoJob THEN jobs
                 ELSE [jobs EXCEPT ![w.job_id] =
                         [@ EXCEPT !.status = IF w.seen.status # "failed" THEN "failed" ELSE @,
                                   !.error_message = IF w.seen.error_message # w.error
                                                     THEN w.error ELSE @]]
      /\ workers' = [workers EXCEPT ![n] = Done(@)]
      /\ UNCHANGED <<datasets, files, empty, uploads, response, submitted, served, request,
                     pipeline, serializer>>

\* DELETE /jobs/{job_id}, up to the status test: 404 without the row, 400
\* unless the status read is pending or running
CancelJobRead ==
  /\ Idle
  /\ served < MaxRequests
  /\ served' = served + 1
  /\ \E id \in JobIds :
       IF jobs[id] = NoJob THEN response' = 404 /\ request' = request
       ELSE IF jobs[id].status \notin CancellableStatuses
       THEN response' = 400 /\ request' = request
       ELSE /\ response' = response
            /\ request' = [NoRequest EXCEPT !.endpoint = "cancel_job", !.job_id = id]
  /\ UNCHANGED <<jobs, datasets, workers, files, empty, uploads, submitted, pipeline,
                 serializer>>

\* job.status = "cancelled"; db.commit(): the background tasks run on
\* while the request is between its read and its commit
CancelJobCommit ==
  /\ request.endpoint = "cancel_job"
  /\ response' = 200
  /\ jobs' = [jobs EXCEPT ![request.job_id].status = "cancelled"]
  /\ request' = NoRequest
  /\ UNCHANGED <<datasets, workers, files, empty, uploads, submitted, served, pipeline, serializer>>

\* the job rows a delete request reads: those of the datasets it deletes
JobsOf(ids) == {id \in JobIds : jobs[id] # NoJob /\ jobs[id].dataset_id \in ids}

\* for job in jobs: the output_file_path of the rows read that have one,
\* in the order of the rows
RECURSIVE OutputPaths(_, _)
OutputPaths(id, ids) ==
  IF id > MaxJobs THEN <<>>
  ELSE (IF id \in JobsOf(ids) /\ jobs[id].output_file_path # NoPath
        THEN <<jobs[id].output_file_path>> ELSE <<>>) \o OutputPaths(id + 1, ids)

\* for dataset in datasets: the file_path of the dataset rows read, in the
\* order of the rows
RECURSIVE FilePaths(_, _)
FilePaths(id, ids) ==
  IF id > MaxUploads THEN <<>>
  ELSE (IF id \in ids THEN <<UploadedFile(datasets[id].file)>> ELSE <<>>)
       \o FilePaths(id + 1, ids)

\* DELETE /datasets/{dataset_id}, the queries: 404 without the row; else
\* the request holds the dataset row and its job rows
DeleteDatasetRead ==
  /\ Idle
  /\ served < MaxRequests
  /\ served' = served + 1
  /\ \E dataset_id \in DatasetIds :
       IF ~datasets[dataset_id].exists
       THEN response' = 404 /\ request' = request
       ELSE /\ response' = response
            /\ request' = [NoRequest EXCEPT
                             !.endpoint = "delete_dataset",
                             !.dataset_id = dataset_id,
                             !.paths = OutputPaths(1, {dataset_id})
                                       \o FilePaths(1, {dataset_id})]
  /\ UNCHANGED <<jobs, datasets, workers, files, empty, uploads, submitted, pipeline,
                 serializer>>

\* DELETE /datasets/, the queries: the request holds every dataset row and
\* every job row
DeleteAllDatasetsRead ==
  /\ Idle
  /\ served < MaxRequests
  /\ served' = served + 1
  /\ LET ids == {id \in DatasetIds : datasets[id].exists}
     IN  request' = [NoRequest EXCEPT
                       !.endpoint = "delete_all_datasets",
                       !.paths = OutputPaths(1, DatasetIds) \o FilePaths(1, ids)]
  /\ UNCHANGED <<jobs, datasets, workers, files, empty, uploads, response, submitted,
                 pipeline, serializer>>

\* if os.path.exists(path): os.remove(path), for the next path of a delete
\* request, the background tasks running on between two of them: a path
\* that is not on disk is passed over; when os.remove raises, the request
\* rolls back and answers 500, the files removed before staying removed
\* and the rows staying
Removed ==
  /\ request.endpoint \in {"delete_dataset", "delete_all_datasets"}
  /\ request.paths # <<>>
  /\ LET path == Head(request.paths)
     IN  \/ /\ files' = files \ {path}
            /\ empty' = empty \ {path}
            /\ uploads' = Unlinked(path)
            /\ request' = [request EXCEPT !.paths = Tail(@)]
            /\ response' = response
         \/ /\ path \in files \cup empty
            /\ request' = NoRequest
            /\ response' = 500
            /\ UNCHANGED <<files, empty, uploads>>
  /\ UNCHANGED <<jobs, datasets, workers, submitted, served, pipeline, serializer>>

\* db.commit() of a delete request: the rows it read go (the dataset rows
\* ids and their job rows); when the commit raises, the request rolls back
\* and answers 500, the files staying removed
Deleted(ids) ==
  /\ request.paths = <<>>
  /\ \/ /\ jobs' = [id \in JobIds |-> IF id \in JobsOf(ids) THEN NoJob ELSE jobs[id]]
        /\ datasets' = [id \in DatasetIds |-> IF id \in ids THEN NoDataset ELSE datasets[id]]
        /\ response' = 200
     \/ /\ response' = 500
        /\ UNCHANGED <<jobs, datasets>>
  /\ request' = NoRequest
  /\ UNCHANGED <<workers, files, empty, uploads, submitted, served, pipeline, serializer>>

\* DELETE /datasets/{dataset_id}, the commit
DeleteDataset ==
  /\ request.endpoint = "delete_dataset"
  /\ Deleted({request.dataset_id})

\* DELETE /datasets/, the commit
DeleteAllDatasets ==
  /\ request.endpoint = "delete_all_datasets"
  /\ Deleted(DatasetIds)

ServiceNext ==
  \/ UploadDatasetOpen
  \/ UploadDatasetWrite
  \/ UploadDataset
  \/ SubmitJob
  \/ AnalyzeDatasetSyncRead
  \/ AnalyzeDatasetSync
  \/ \E n \in Tasks : LoadJob(n)
  \/ \E n \in Tasks : StartJob(n)
  \/ \E n \in Tasks : GetDataset(n)
  \/ \E n \in Tasks : ReadFile(n)
  \/ \E n \in Tasks : RunAnalyzer(n)
  \/ \E n \in Tasks : RunCleaner(n)
  \/ \E n \in Tasks : SaveFile(n)
  \/ \E n \in Tasks : SerializeResults(n)
  \/ \E n \in Tasks : FinishJob(n)
  \/ \E n \in Tasks : ReloadJob(n)
  \/ \E n \in Tasks : RecordFailure(n)
  \/ CancelJobRead
  \/ CancelJobCommit
  \/ DeleteDatasetRead
  \/ DeleteAllDatasetsRead
  \/ Removed
  \/ DeleteDataset
  \/ DeleteAllDatasets

ServiceSpec == ServiceInit /\ [][ServiceNext]_vars

\* ------------------------------------------------------------------ claims
StepsOfKind(kinds) ==
  {i \in 1..Len(cleaning_results.cleaning_steps) :
     cleaning_results.cleaning_steps[i].kind \in kinds}

\* C1: the quality_score returned by analyze_dataset is a number in [0, 100]
\* for every Table, whatever its rates of nulls, duplicates and outliers.
QualityScoreInRange ==
  analysis_results.present =>
    LET q == analysis_results.quality_score
    IN ~IsNull(q) /\ 0 <= q.n /\ q.n <= 100 * q.d

\* an all-null Table was analyzed: 100% missing, raw score below 0, clamped to 0
QualityScoreClampedWitness ==
  /\ analysis_results.present
  /\ analysis_results.missing_data.total_missing = analysis_results.missing_data.total_cells
  /\ analysis_results.missing_data.total_cells > 0
  /\ RawQualityScore(analysis_results).n < 0
  /\ analysis_results.quality_score = NumInt(0)

\* the rows each detector flags on the analyzed Table
StatFlagged(nm) ==
  {IqrOutliers(input, nm), ZscoreOutliers(input, nm), ModifiedZscoreOutliers(input, nm)}
MLFlagged ==
  {analysis_results.outliers.ml_based[m].outlier_indices :
     m \in {x \in MLMethods : ~analysis_results.outliers.ml_based.message
                              /\ analysis_results.outliers.ml_based[x].has_indices}}
AllFlaggedSets == UNION {StatFlagged(nm) : nm \in StatCols(input)} \cup MLFlagged

\* C2: the combined outlier set is exactly the union of the rows flagged by
\* IQR, Z-score and modified Z-score on every numeric column and by every
\* ensemble method; it contains each method's set and total_outliers is its size.
CombinedIsUnion ==
  (analysis_results.present /\ analysis_results.outliers.has_combined) =>
    LET c == analysis_results.outliers.combined
    IN /\ c.all_outlier_indices = UNION AllFlaggedSets
       /\ \A S \in AllFlaggedSets : S \subseteq c.all_outlier_indices
       /\ c.total_outliers = Cardinality(c.all_outlier_indices)

\* an ensemble method flagged a row no statistical method flagged, and a
\* statistical method flagged another
CombinedIsUnionWitness ==
  /\ analysis_results.present
  /\ analysis_results.outliers.has_combined
  /\ \E S \in MLFlagged : \E x \in S :
       \A nm \in StatCols(input) : \A T \in StatFlagged(nm) : x \notin T
  /\ \E nm \in StatCols(input) : ZscoreOutliers(input, nm) # {}

ImputationDone == pc \in {"outliers", "cap", "duplicates", "types", "inconsistencies",
                          "transform", "done"}

\* the method the decision table of the claim gives for k nulls among n
\* rows of a numeric / non-numeric column
TableMethod(k, n, numeric) ==
  IF 100 * k > 50 * n THEN "drop_column"
  ELSE IF numeric
       THEN IF 100 * k < 5 * n THEN "mean"
            ELSE IF 100 * k < 20 * n THEN "median" ELSE "knn"
       ELSE IF 100 * k < 10 * n THEN "mode" ELSE "constant"

\* C3: every column with a null gets the method of the decision table
\* (p > 50 drop_column; numeric p < 5 mean, p < 20 median, else knn;
\* non-numeric p < 10 mode, else constant), and columns without nulls get none.
PlannerFollowsTable ==
  ImputationDone =>
    /\ DOMAIN cleaning_results.methods_used =
         {nm \in Range(ColNames(input)) : NullCount(Col(input, nm).vals) > 0}
    /\ \A nm \in DOMAIN cleaning_results.methods_used :
         cleaning_results.methods_used[nm] =
           TableMethod(NullCount(Col(input, nm).vals), NRows(input),
                       IsNumericDtype(Col(input, nm).dtype))

\* a numeric column with under 5% nulls was planned: mean
PlannerMeanWitness ==
  /\ pc = "outliers"
  /\ \E nm \in DOMAIN cleaning_results.methods_used :
       /\ cleaning_results.methods_used[nm] = "mean"
       /\ IsNumericDtype(Col(input, nm).dtype)
       /\ 100 * NullCount(Col(input, nm).vals) < 5 * NRows(input)

\* C4: a column planned drop_column is no column of the Table once the
\* imputation stage has returned.
DroppedColumnIsGone ==
  pc = "outliers" =>
    \A nm \in DOMAIN cleaning_results.methods_used :
      cleaning_results.methods_used[nm] = "drop_column" => ~HasCol(df, nm)

\* C5: without an AnalysisReport the Outlier Treater still runs its second
\* phase: no row is removed and every numeric column is IQR-capped.
CappingRunsWithoutReport ==
  [][(pc = "outliers" /\ ~analysis_results.present) =>
       /\ df'.index = df.index
       /\ \A nm \in Range(NumericCols(df)) : Col(df', nm).vals = CapColumn(df, nm).vals]_vars

\* C6 as stated: after the capping pass, IQR bounds recomputed on the capped
\* column contain every value of the column.
RecomputedBoundsContainAll ==
  (pc = "duplicates" /\ analysis_results.present) =>
    \A nm \in StatCols(df) :
      LET b == IqrBounds(NonNull(Col(df, nm).vals))
      IN \A i \in DataPos(df, nm) :
           ~(Lt(Col(df, nm).vals[i], b.lower) \/ Lt(b.upper, Col(df, nm).vals[i]))

\* C6 amended: after the capping pass every value of a numeric column lies
\* within the IQR bounds computed on that column before the pass, and every
\* value the pass changed sits exactly on one of those bounds.
CappedWithinPriorBounds ==
  [][pc = "cap" =>
       \A nm \in StatCols(df) :
         LET b == IqrBounds(NonNull(Col(df, nm).vals))
         IN \A i \in DataPos(df, nm) :
              LET old == Col(df, nm).vals[i]
                  new == Col(df', nm).vals[i]
              IN /\ Le(b.lower, new) /\ Le(new, b.upper)
                 /\ new # old => new \in {b.lower, b.upper}]_vars

\* a capping pass clipped a value and the recomputed bounds exclude a value
CappingNotConvergedWitness ==
  /\ pc = "duplicates"
  /\ analysis_results.present
  /\ cleaning_results.outlier_treatment.outliers_capped > 0
  /\ ~RecomputedBoundsContainAll

\* the row labels of the analyzed Table outside the report's combined set
KeptLabels ==
  SelectSeq(input.index,
            LAMBDA x : ~(analysis_results.outliers.has_combined
                         /\ x \in analysis_results.outliers.combined.all_outlier_indices))

\* C7: with a report, phase 1 removes exactly the rows of the report's
\* combined set (as analyzed, not recomputed) and phase 2 only clips: the
\* rows after phase 2 are the rows after phase 1.
TwoPhaseOutlierTreatment ==
  (analysis_results.present /\ pc \in {"cap", "duplicates"}) =>
    /\ df.index = KeptLabels
    /\ cleaning_results.outlier_treatment.outliers_removed
         = NRows(input) - Len(KeptLabels)
    /\ \A j \in 1..NCols(df) : Len(df.cols[j].vals) = Len(KeptLabels)

\* both phases acted: rows were removed, then values were clipped
TwoPhaseWitness ==
  /\ pc = "duplicates"
  /\ analysis_results.present
  /\ cleaning_results.outlier_treatment.outliers_removed > 0
  /\ cleaning_results.outlier_treatment.outliers_capped > 0
  /\ NRows(df) = NRows(input) - cleaning_results.outlier_treatment.outliers_removed

\* s is a subsequence of t
RECURSIVE IsSubSeq(_, _)
IsSubSeq(a, b) ==
  IF a = <<>> THEN TRUE
  ELSE IF b = <<>> THEN FALSE
  ELSE IF Head(a) = Head(b) THEN IsSubSeq(Tail(a), Tail(b))
  ELSE IsSubSeq(a, Tail(b))

\* C8: at every stage every column holds exactly row_count values and the
\* remaining columns keep the relative order they had in the input Table.
ShapeAndOrderStable ==
  /\ \A j \in 1..NCols(df) : Len(df.cols[j].vals) = NRows(df)
  /\ IsSubSeq(ColNames(df), ColNames(input))

\* the Table has no null, no repeated row and no value outside its column's
\* IQR bounds, and the report (if any) has an empty combined outlier set
ZeroDefects ==
  /\ TotalMissing(input) = 0
  /\ \A i \in 1..NRows(input) : \A j \in 1..(i - 1) : RowAt(input, i) # RowAt(input, j)
  /\ \A nm \in Range(NumericCols(input)) :
       LET vals == Col(input, nm).vals
           Q1   == Quantile(vals, 1)
           Q3   == Quantile(vals, 3)
           lo   == Sub(Q1, Scale(Sub(Q3, Q1), 3, 2))
           hi   == Add(Q3, Scale(Sub(Q3, Q1), 3, 2))
       IN \A i \in 1..Len(vals) : Le(lo, vals[i]) /\ Le(vals[i], hi)
  /\ analysis_results.present =>
       (analysis_results.outliers.has_combined =>
          analysis_results.outliers.combined.all_outlier_indices = {})

\* C9: cleaning a Table with zero defects keeps the row count and logs no
\* imputation, outlier-removal or capping entry (scaling/encoding may appear).
ZeroDefectsRoundTrip ==
  ZeroDefects =>
    /\ pc # "raised"
    /\ pc \notin {"start", "analyzed"} => NRows(df) = NRows(input)
    /\ StepsOfKind({"imputed", "removed_outliers", "capped"}) = {}
    /\ pc = "done" => cleaning_results.rows_removed = 0

\* a zero-defect Table went through the whole pipeline with a report, and
\* the log holds scaling and encoding entries
ZeroDefectsWitness ==
  /\ ZeroDefects
  /\ pc = "done"
  /\ analysis_results.present
  /\ NRows(input) > 1
  /\ StepsOfKind({"scaled"}) # {}
  /\ StepsOfKind({"encoded"}) # {}

\* C10: the Deduplicator is idempotent: applied to its own result it returns
\* the same Table, removes 0 rows and appends no log entry.
DeduplicatorIdempotent ==
  /\ LET once == DropDuplicates(df)
     IN DropDuplicates(once) = once /\ RemovedCount(once) = 0 /\ DuplicateSteps(once) = <<>>
  /\ pc = "types" =>
       DropDuplicates(df) = df /\ RemovedCount(df) = 0 /\ DuplicateSteps(df) = <<>>

\* the Deduplicator has just removed at least two rows
DeduplicatorWitness ==
  /\ pc = "types"
  /\ \E i \in StepsOfKind({"removed_duplicates"}) :
       /\ i = Len(cleaning_results.cleaning_steps)
       /\ cleaning_results.cleaning_steps[i].count >= 2
       /\ NRows(df) >= 2

\* the place of a log entry's stage in the fixed order of the six stages
StageRank(kind) ==
  CASE kind = "imputed" -> 1
    [] kind \in {"removed_outliers", "capped"} -> 2
    [] kind = "removed_duplicates" -> 3
    [] kind = "converted" -> 4
    [] kind \in {"scaled", "encoded"} -> 6
    [] OTHER -> 0

\* the positions of a run in which the six stages execute, each entered
\* from the one before and left for the next
StageSuccession ==
  {<<"start", "analyzed">>, <<"start", "missing">>, <<"analyzed", "missing">>,
   <<"missing", "outliers">>,
   <<"outliers", "cap">>, <<"outliers", "duplicates">>, <<"cap", "duplicates">>,
   <<"duplicates", "types">>, <<"types", "inconsistencies">>,
   <<"inconsistencies", "transform">>, <<"transform", "done">>}

IsPrefix(a, b) == Len(a) <= Len(b) /\ \A i \in 1..Len(a) : a[i] = b[i]

\* C11: in every run the six stages execute once each in the order
\* imputation, outlier treatment, deduplication, type standardization, text
\* normalization, feature transformation (no run leaves a stage but for the
\* next one); within a run the step log only grows at its end, so its
\* entries stand in stage order.
StagesInOrderLogAppendOnly ==
  /\ [](\A i \in 1..Len(cleaning_results.cleaning_steps) :
          \A j \in 1..i :
            /\ StageRank(cleaning_results.cleaning_steps[i].kind) > 0
            /\ StageRank(cleaning_results.cleaning_steps[j].kind)
                 <= StageRank(cleaning_results.cleaning_steps[i].kind))
  /\ [][/\ pc' # pc => <<pc, pc'>> \in StageSuccession
        /\ pc \notin {"start", "analyzed"} =>
             IsPrefix(cleaning_results.cleaning_steps, cleaning_results'.cleaning_steps)]_vars

\* rows of the analyzed Table equal in every column to an earlier row
RepeatedRows ==
  {i \in 1..NRows(input) : \E j \in 1..(i - 1) : RowAt(input, j) = RowAt(input, i)}

\* size of the report's combined outlier set, 0 when it has none
CombinedCount ==
  IF analysis_results.outliers.has_combined
  THEN Cardinality(analysis_results.outliers.combined.all_outlier_indices) ELSE 0

\* C12: quality score = 100 - 2 * missing% - 1.5 * duplicate% - 0.5 *
\* (combined outliers / rows * 100), clamped to [0, 100]; the outlier term
\* is 0 without a combined set or with 0 rows (a Table without cells scores 100).
QualityScoreFormula ==
  analysis_results.present =>
    LET R   == NRows(input)
        C   == NCols(input)
        M   == TotalMissing(input)
        D   == Cardinality(RepeatedRows)
        O   == CombinedCount
        num == 200 * R * C - 400 * M - 300 * D * C - 100 * O * C
        den == 2 * R * C
        q   == analysis_results.quality_score
    IN IF den = 0 THEN q = NumInt(100)
       ELSE IF num < 0 THEN q = NumInt(0)
       ELSE IF num > 100 * den THEN q = NumInt(100)
       ELSE q = Num(num, den)

\* a report where nulls, repeated rows and outliers all cost points and the
\* score is strictly between 0 and 100
QualityScoreFormulaWitness ==
  /\ analysis_results.present
  /\ TotalMissing(input) > 0
  /\ RepeatedRows # {}
  /\ CombinedCount > 0
  /\ Lt(NumInt(0), analysis_results.quality_score)
  /\ Lt(analysis_results.quality_score, NumInt(100))

\* the null cells of the analyzed Table, as (row, column) positions
NullCells ==
  {rc \in (1..NRows(input)) \X (1..NCols(input)) : input.cols[rc[2]].vals[rc[1]].k = "null"}

\* C13: for R rows, C columns and M null cells the report has
\* total_missing = M, total_cells = R * C and, when R * C > 0,
\* missing_percentage = 100 * M / (R * C); the scenario Table gives 2/12 * 100.
MissingPercentageExact ==
  analysis_results.present =>
    LET md    == analysis_results.missing_data
        cells == NRows(input) * NCols(input)
        M     == Cardinality(NullCells)
    IN /\ md.total_missing = M
       /\ md.total_cells = cells
       /\ cells > 0 => /\ md.missing_percentage.k = "num"
                       /\ md.missing_percentage.n * cells = 100 * M * md.missing_percentage.d
       /\ input = ScenarioTable => md.missing_percentage = Num(2 * 100, 12)

\* the scenario Table was analyzed: 2 of 12 cells are null
MissingPercentageWitness ==
  /\ analysis_results.present
  /\ input = ScenarioTable
  /\ analysis_results.missing_data.total_missing = 2
  /\ analysis_results.missing_data.total_cells = 12
  /\ analysis_results.missing_data.missing_percentage = Num(50, 3)

\* the quartile fences of the non-null values of column nm of the analyzed Table
Fences(nm) ==
  LET data == SelectSeq(Col(input, nm).vals, LAMBDA c : c.k # "null")
      Q1   == Quantile(data, 1)
      Q3   == Quantile(data, 3)
      IQR  == Sub(Q3, Q1)
  IN [lower |-> Sub(Q1, Scale(IQR, 3, 2)), upper |-> Add(Q3, Scale(IQR, 3, 2))]

\* C14: on a numeric column the IQR detector flags exactly the rows whose
\* non-null value is strictly below Q1 - 1.5 * IQR or strictly above
\* Q3 + 1.5 * IQR; in the scenario Table it flags the row of age 150 and
\* the quality score is below 100.
IqrFlagsStrictlyOutside ==
  analysis_results.present =>
    /\ \A nm \in DOMAIN analysis_results.outliers.statistical :
         LET vals == Col(input, nm).vals
             f    == Fences(nm)
         IN /\ analysis_results.outliers.statistical[nm].iqr_bounds = f
            /\ analysis_results.outliers.statistical[nm].outlier_indices.iqr =
                 {input.index[i] : i \in {p \in 1..NRows(input) :
                    /\ vals[p].k # "null"
                    /\ \/ vals[p].n * f.lower.d < f.lower.n * vals[p].d
                       \/ vals[p].n * f.upper.d > f.upper.n * vals[p].d}}
    /\ input = ScenarioTable =>
         /\ analysis_results.outliers.statistical["age"].iqr_bounds
              = [lower |-> Num(15, 2), upper |-> Num(135, 2)]
         /\ analysis_results.outliers.statistical["age"].outlier_indices.iqr = {4}
         /\ Lt(analysis_results.quality_score, NumInt(100))

\* the scenario Table was analyzed and the row of age 150 is flagged
IqrFlagsWitness ==
  /\ analysis_results.present
  /\ input = ScenarioTable
  /\ input.cols[1].vals[5] = NumInt(150)
  /\ analysis_results.outliers.statistical["age"].outlier_indices.iqr = {input.index[5]}
  /\ Lt(analysis_results.quality_score, NumInt(100))

\* new is old with every null replaced by the mean of old's non-null values
MeanFilled(old, new) ==
  LET data == SelectSeq(old, LAMBDA c : c.k # "null")
      S    == SumSeq(data)
  IN /\ Len(new) = Len(old)
     /\ \A i \in 1..Len(old) :
          /\ new[i].k = "num"
          /\ old[i].k # "null" => new[i] = old[i]
          /\ old[i].k = "null" => new[i].n * S.d * Len(data) = S.n * new[i].d

\* C15: the mean method fills every null of a numeric column with the mean
\* of the column's non-null values, changes no other cell and leaves no null
\* (in the pipeline, and applied to any column holding a null and a value).
MeanImputationFillsNulls ==
  /\ pc = "outliers" =>
       \A nm \in DOMAIN cleaning_results.methods_used :
         cleaning_results.methods_used[nm] = "mean" =>
           MeanFilled(Col(input, nm).vals, Col(df, nm).vals)
  /\ \A j \in 1..NCols(df) :
       LET c == df.cols[j]
       IN (/\ IsNumericDtype(c.dtype)
           /\ \E i \in 1..Len(c.vals) : c.vals[i].k = "null"
           /\ \E i \in 1..Len(c.vals) : c.vals[i].k = "num") =>
            \A o \in ApplyImputation(df, c.name, "mean") :
              /\ ~o.raised
              /\ MeanFilled(c.vals, Col(o.df, c.name).vals)
              /\ \A k \in 1..NCols(df) : k # j => o.df.cols[k] = df.cols[k]

\* the pipeline imputed a column by mean and the filled value is a fraction
\* no cell of the column held
MeanImputationWitness ==
  /\ pc = "outliers"
  /\ \E nm \in DOMAIN cleaning_results.methods_used :
       /\ cleaning_results.methods_used[nm] = "mean"
       /\ \E i \in 1..NRows(input) :
            /\ Col(input, nm).vals[i].k = "null"
            /\ Col(df, nm).vals[i].k = "num"
            /\ Col(df, nm).vals[i].d > 1

\* the suggestion the stated decision order gives for a column: numeric if
\* at least 80% of the non-null values convert to a number, else datetime
\* if every value parses as a date/time, else categorical if the
\* distinct-value ratio is below 0.5, else text ("object")
StatedSuggestion(c) ==
  LET nn   == SelectSeq(c.vals, LAMBDA v : v.k # "null")
      conv == SelectSeq(nn, LAMBDA v : ToNumeric(v).k = "num")
  IN IF 5 * Len(conv) >= 4 * Len(nn) THEN "numeric"
     ELSE IF \A i \in 1..Len(c.vals) : DatetimeParses(c.vals[i]) THEN "datetime"
     ELSE IF 2 * Cardinality({nn[i] : i \in 1..Len(nn)}) < Len(c.vals) THEN "categorical"
     ELSE "object"

\* C16: for every column holding a value the analyzer's and the cleaner's
\* suggestion is the one of the stated decision order (numeric at >= 80% of
\* the non-null values, else datetime, else categorical, else text), and the
\* two agree on every non-datetime column.
SuggestionFollowsDecisionOrder ==
  \A t \in {input, df} : \A j \in 1..NCols(t) :
    LET c == t.cols[j]
    IN (c.dtype # "datetime64[ns]" /\ \E i \in 1..Len(c.vals) : c.vals[i].k # "null") =>
         /\ SuggestDtype(c) = StatedSuggestion(c)
         /\ SuggestOptimalDtype(c) = SuggestDtype(c)

\* C17: type standardization never aborts the run and is all-or-nothing per
\* column: either every value of the column is converted, or the column
\* keeps its type and values and no conversion is recorded; no value is
\* lost or nulled by a conversion.
TypeConversionAllOrNothing ==
  [][pc = "types" =>
       /\ pc' = "inconsistencies"
       /\ \A j \in 1..NCols(df) :
            LET old == df.cols[j]
                new == df'.cols[j]
            IN \/ /\ new = old
                  /\ old.name \notin DOMAIN cleaning_results'.type_conversions
               \/ /\ old.name \in DOMAIN cleaning_results'.type_conversions
                  /\ \A i \in 1..Len(old.vals) :
                       old.vals[i].k # "null" => new.vals[i].k # "null"]_vars

\* the recommendations of a type in a list
OfType(recs, type) == {i \in 1..Len(recs) : recs[i].type = type}

\* how many recommendations the four rules give for the analyzed Table
ExpectedRecommendations ==
  LET cells == NRows(input) * NCols(input)
  IN [missing_data |-> IF cells > 0 /\ 100 * Cardinality(NullCells) > 5 * cells THEN 1 ELSE 0,
      duplicates   |-> IF NRows(input) > 0 /\ 100 * Cardinality(RepeatedRows) > NRows(input)
                       THEN 1 ELSE 0,
      outliers     |-> IF CombinedCount > 0 THEN 1 ELSE 0,
      data_types   |-> Cardinality({nm \in DOMAIN analysis_results.data_types :
                                      analysis_results.data_types[nm].mixed_types # <<>>})]

\* C18: four independent rules: an imputation recommendation iff missing% > 5
\* (high above 20, else medium), a dedup one iff duplicate% > 1 (high above
\* 10, else medium), an outlier one iff the combined count > 0 (medium), one
\* type-standardization recommendation per column with a mixed-type flag
\* (medium); both lists hold exactly the recommendations of the rules that fire.
RecommendationRules ==
  analysis_results.present =>
    LET mine  == analysis_results.recommendations
        resp  == GetAnalysisRecommendations(analysis_results)
        theirs == resp.recommendations
        e     == ExpectedRecommendations
        cells == NRows(input) * NCols(input)
    IN /\ \A ty \in {"missing_data", "duplicates", "outliers", "data_types"} :
            /\ Cardinality(OfType(mine, ty)) = e[ty]
            /\ Cardinality(OfType(theirs, ty)) = e[ty]
       /\ Len(mine) = e.missing_data + e.duplicates + e.outliers + e.data_types
       /\ Len(theirs) = Len(mine)
       /\ resp.total_recommendations = Len(theirs)
       /\ \A nm \in DOMAIN analysis_results.data_types :
            LET n == IF analysis_results.data_types[nm].mixed_types # <<>> THEN 1 ELSE 0
            IN /\ Cardinality({i \in OfType(mine, "data_types") : mine[i].col = nm}) = n
               /\ Cardinality({i \in OfType(theirs, "data_types") : theirs[i].col = nm}) = n
       /\ \A i \in 1..Len(theirs) :
            theirs[i].severity =
              CASE theirs[i].type = "missing_data" ->
                     IF 100 * Cardinality(NullCells) > 20 * cells THEN "high" ELSE "medium"
                [] theirs[i].type = "duplicates" ->
                     IF 100 * Cardinality(RepeatedRows) > 10 * NRows(input)
                     THEN "high" ELSE "medium"
                [] OTHER -> "medium"

\* a report on which all four rules fire, the imputation one at medium
\* severity and the dedup one at high
RecommendationRulesWitness ==
  /\ analysis_results.present
  /\ \A ty \in {"missing_data", "duplicates", "outliers", "data_types"} :
       OfType(analysis_results.recommendations, ty) # {}
  /\ LET theirs == GetAnalysisRecommendations(analysis_results).recommendations
     IN /\ \E i \in 1..Len(theirs) :
             theirs[i].type = "missing_data" /\ theirs[i].severity = "medium"
        /\ \E i \in 1..Len(theirs) :
             theirs[i].type = "duplicates" /\ theirs[i].severity = "high"

\* C19: exact_duplicates counts the rows equal in every column to an earlier
\* row, exact_duplicate_pct is 100 * exact_duplicates / row count, severity is
\* low below 1, medium from 1 to below 10, high otherwise; two identical rows
\* among five give count 1, 20% and high.
DuplicateReportExact ==
  analysis_results.present =>
    LET dup == analysis_results.duplicates
        D   == Cardinality(RepeatedRows)
        N   == NRows(input)
    IN /\ dup.exact_duplicates = D
       /\ N > 0 => /\ dup.exact_duplicate_pct.k = "num"
                   /\ dup.exact_duplicate_pct.n * N = 100 * D * dup.exact_duplicate_pct.d
       /\ dup.severity = IF N > 0 /\ 100 * D < N THEN "low"
                         ELSE IF N > 0 /\ 100 * D < 10 * N THEN "medium"
                         ELSE "high"
       /\ (N = 5 /\ D = 1) => /\ dup.exact_duplicates = 1
                              /\ dup.exact_duplicate_pct = NumInt(20)
                              /\ dup.severity = "high"

\* the report on a Table of five rows, two of them identical
DuplicateReportWitness ==
  /\ analysis_results.present
  /\ NRows(input) = 5
  /\ Cardinality(RepeatedRows) = 1
  /\ analysis_results.duplicates.severity = "high"

\* C20: a Table of fewer than 10 rows is analyzed without failing, the
\* ensemble detection is skipped and reported as insufficient data, and the
\* combined outlier set is the union of the statistical methods' indices only.
ShortTableSkipsEnsemble ==
  /\ (pc = "analyzed" /\ NRows(input) < MinMLRows) => analysis_results.present
  /\ (analysis_results.present /\ NRows(input) < MinMLRows
        /\ analysis_results.outliers.has_combined) =>
       LET o == analysis_results.outliers
       IN /\ o.ml_based.message
          /\ \A m \in MLMethods : ~o.ml_based[m].has_indices
          /\ o.combined.all_outlier_indices =
               UNION (UNION {StatFlagged(nm) : nm \in StatCols(input)})
          /\ o.combined.total_outliers = Cardinality(o.combined.all_outlier_indices)

\* a report on a short Table whose statistical methods flag some row
ShortTableWitness ==
  /\ analysis_results.present
  /\ NRows(input) < MinMLRows
  /\ analysis_results.outliers.has_combined
  /\ analysis_results.outliers.ml_based.message
  /\ analysis_results.outliers.combined.total_outliers > 0

\* median absolute deviation of the non-null values of a column of the
\* analyzed Table
MadOf(nm) ==
  LET data == NonNull(Col(input, nm).vals)
      med  == Median(data)
  IN Median([i \in 1..Len(data) |-> AbsC(Sub(data[i], med))])

\* labels of the non-null values of a column that differ from its median
OffMedian(nm) ==
  LET c   == Col(input, nm)
      med == Median(NonNull(c.vals))
  IN {input.index[i] : i \in {p \in 1..NRows(input) :
                                 ~IsNull(c.vals[p]) /\ c.vals[p] # med}}

\* C24: when the median absolute deviation of a numeric column is 0, the
\* modified Z-score detector flags exactly the non-null values that differ
\* from the median, and the analysis still gives its report.
ZeroMadFlagsOffMedian ==
  /\ pc = "analyzed" => analysis_results.present
  /\ analysis_results.present =>
       \A nm \in StatCols(input) :
         MadOf(nm) = NumInt(0) =>
           /\ nm \in DOMAIN analysis_results.outliers.statistical
           /\ analysis_results.outliers.statistical[nm].outlier_indices.modified_zscore
                = OffMedian(nm)

\* a report on a column with zero deviation holding values on and off the
\* median
ZeroMadWitness ==
  /\ analysis_results.present
  /\ \E nm \in StatCols(input) :
       /\ MadOf(nm) = NumInt(0)
       /\ OffMedian(nm) # {}
       /\ OffMedian(nm) # {input.index[i] : i \in DataPos(input, nm)}
       /\ analysis_results.outliers.statistical[nm].outlier_indices.modified_zscore # {}

\* the non-null values of a column of the analyzed Table that convert to a
\* number, and those that do not
Convertible(nm) ==
  {i \in 1..NRows(input) : ~IsNull(Col(input, nm).vals[i])
                            /\ ~IsNull(ToNumeric(Col(input, nm).vals[i]))}
Unconvertible(nm) ==
  {i \in 1..NRows(input) : ~IsNull(Col(input, nm).vals[i])
                            /\ IsNull(ToNumeric(Col(input, nm).vals[i]))}

\* C25: a column carries mixed_numeric_string only if it holds a non-null
\* value that converts to a number and a non-null value that does not; a
\* column whose non-null values are all numeric, with or without nulls, is not
\* flagged and gets no type-standardization recommendation.
MixedFlagNeedsBothKinds ==
  analysis_results.present =>
    \A nm \in DOMAIN analysis_results.data_types :
      LET flags == analysis_results.data_types[nm].mixed_types
          recs  == analysis_results.recommendations
      IN /\ (\E k \in 1..Len(flags) : flags[k] = "mixed_numeric_string")
              => (Convertible(nm) # {} /\ Unconvertible(nm) # {})
         /\ Unconvertible(nm) = {}
              => /\ flags = <<>>
                 /\ \A k \in 1..Len(recs) :
                      ~(recs[k].type = "data_types" /\ recs[k].col = nm)

\* C26: clean_dataset never modifies the Table the caller passed in: when
\* the call has returned, and when a stage has raised midway, the caller's
\* Table has the columns, rows and values it was handed over with.
CallerTableUntouched == caller.df = input

\* a call that raised midway, or returned, after filling a column of its frame
CallerTableWitness ==
  /\ pc \in {"done", "raised"}
  /\ Len(cleaning_results.columns_imputed) > 0
  /\ df # input
  /\ caller.df = input

\* rows the log says were removed as duplicates, rows the report says were
\* removed as outliers
DuplicatesRemoved ==
  LET S == StepsOfKind({"removed_duplicates"})
  IN IF S = {} THEN 0 ELSE cleaning_results.cleaning_steps[CHOOSE i \in S : TRUE].count
OutliersRemoved == cleaning_results.outlier_treatment.outliers_removed

\* C29: in every completed run rows_removed = original rows - final rows >= 0,
\* and it is the rows removed as outliers (0 without an AnalysisReport) plus
\* the duplicate rows removed; no other stage adds or removes rows.
RowAccounting ==
  /\ [](pc = "done" =>
         /\ cleaning_results.has_final
         /\ cleaning_results.original_shape[1] = NRows(input)
         /\ cleaning_results.final_shape[1] = NRows(df)
         /\ cleaning_results.rows_removed = NRows(input) - NRows(df)
         /\ cleaning_results.rows_removed >= 0
         /\ cleaning_results.rows_removed = OutliersRemoved + DuplicatesRemoved
         /\ ~analysis_results.present => OutliersRemoved = 0)
  /\ [][/\ pc = "outliers" => NRows(df) - NRows(df') = OutliersRemoved'
        /\ pc = "duplicates" => NRows(df) - NRows(df') = DuplicatesRemoved'
        /\ pc \notin {"outliers", "duplicates"} => NRows(df') = NRows(df)]_vars

\* a completed run that removed outlier rows and duplicate rows
RowAccountingWitness ==
  /\ pc = "done"
  /\ OutliersRemoved > 0
  /\ DuplicatesRemoved > 0
  /\ cleaning_results.rows_removed = OutliersRemoved + DuplicatesRemoved

\* the null cells of the working frame, as (column, row position) pairs
NullCellsOf(t) ==
  {<<c, i>> \in (1..NCols(t)) \X (1..NRows(t)) : IsNull(t.cols[c].vals[i])}

\* C30: the Table returned by clean_dataset holds no null cell: imputation
\* fills every null or removes its column, and no later stage introduces one.
ReturnedTableHasNoNull == pc = "done" => NullCellsOf(df) = {}

\* columns the last run filled with a fitted imputer
FittedImputerCols ==
  {nm \in DOMAIN cleaning_results.methods_used :
     cleaning_results.methods_used[nm] \in {"mean", "median", "mode", "knn"}}

\* C21: after any sequence of clean_dataset calls on one instance (no
\* pipeline file written, so nothing loaded from one) the
\* fitted state is exactly what the most recent run fitted: an imputer under
\* each column it filled by mean, median, mode or knn, an encoder under each
\* column it label-encoded, one scaler iff its Table had a numeric column, and
\* nothing under any other column.
FittedStateIsLastRun ==
  (pc = "done" /\ ~saved.present) =>
    /\ DOMAIN imputers = FittedImputerCols
    /\ encoders = cleaning_results.encoding
    /\ scalers = IF Len(cleaning_results.scaling) > 0 THEN {"numeric"} ELSE {}

\* the scalars anywhere in a value, arrays opened
RECURSIVE LeavesOf(_)
LeavesOf(o) ==
  IF o.ty \in Containers \cup {"np.ndarray"}
  THEN UNION {LeavesOf(o.items[i]) : i \in 1..Len(o.items)}
  ELSE {o}

\* the same walk, counting the null markers: None, pd.NA, pd.NaT and every NaN
IsNullMarker(o) == o.ty \in {"NoneType", "NAType", "NaTType"} \/ o.nan
RECURSIVE NullMarkers(_)
NullMarkers(o) ==
  IF o.ty \in Containers \cup {"np.ndarray"}
  THEN LET cnt[i \in 0..Len(o.items)] ==
             IF i = 0 THEN 0 ELSE cnt[i - 1] + NullMarkers(o.items[i])
       IN cnt[Len(o.items)]
  ELSE IF IsNullMarker(o) THEN 1 ELSE 0

\* explicit nulls of a serialized value
RECURSIVE ExplicitNulls(_)
ExplicitNulls(o) ==
  IF o.ty \in Containers
  THEN LET cnt[i \in 0..Len(o.items)] ==
             IF i = 0 THEN 0 ELSE cnt[i - 1] + ExplicitNulls(o.items[i])
       IN cnt[Len(o.items)]
  ELSE IF o = PyNone THEN 1 ELSE 0

\* C22: the serializer renders every not-a-number or null marker anywhere in
\* the report (plain float NaN, library float NaN, None, missing-value
\* marker) as an explicit null, and every other library numeric value as a
\* plain integer or double.
SerializerNullsAndPlainNumbers ==
  out # Unset =>
    /\ \A x \in LeavesOf(out) :
         /\ ~x.nan
         /\ x.ty \in {"int", "float", "bool", "str", "NoneType"}
    /\ ExplicitNulls(out) = NullMarkers(obj)

\* C23: when a step of a background run raises, the exception stays inside
\* run_analysis / run_cleaning, the job ends failed with the error message
\* recorded, and the results the earlier stages had computed are kept in the
\* job record: checked on the step in which the except branch commits to
\* the row the run's own submission created.
FailedRunKeepsPartialResults ==
  [][\A n \in Tasks :
       (/\ workers[n].pc = "record"
        /\ workers'[n].pc = "returned"
        /\ jobs'[workers[n].job_id].created = n) =>
         /\ jobs'[workers[n].job_id].status = "failed"
         /\ jobs'[workers[n].job_id].error_message = workers[n].error
         /\ "analysis_results" \in workers[n].computed =>
              "analysis_results" \in jobs'[workers[n].job_id].results]_vars

\* task n takes a step
Steps(n) == workers'[n] # workers[n]

\* task n commits its last update
Completes(n) == workers[n].pc = "finish" /\ workers'[n].pc = "returned"

\* C27: a dataset becomes cleaned only through a cleaning job that found
\* it analyzed or cleaned; a cleaning job that finds it uploaded writes no
\* output file, leaves the dataset status as it was and ends failed with
\* the analyze-first message (on the job row its own submission created).
CleanedOnlyAfterAnalysis ==
  [][/\ \A id \in DatasetIds :
          (datasets[id].status # "cleaned" /\ datasets'[id].status = "cleaned") =>
             \E n \in Tasks : /\ Completes(n)
                              /\ workers[n].task = "clean"
                              /\ workers[n].dataset_id = id
                              /\ workers[n].found \in {"analyzed", "cleaned"}
     /\ \A n \in Tasks :
          (/\ Steps(n)
           /\ workers[n].task = "clean"
           /\ "uploaded" \in {workers[n].found, workers'[n].found}) =>
             /\ files' = files
             /\ datasets' = datasets
             /\ workers'[n].pc \in {"except", "record", "returned"}
             /\ (workers'[n].pc = "returned" /\ jobs'[workers[n].job_id].created = n) =>
                  /\ jobs'[workers[n].job_id].status = "failed"
                  /\ jobs'[workers[n].job_id].error_message = MustAnalyzeFirst]_vars

\* C28: cancel_job succeeds only on a pending or running job, a rejected
\* request leaves the job as it is, and once the job is cancelled no later
\* step of its background worker (the task its submission queued) makes it
\* running, completed or failed.
CancelledJobStaysCancelled ==
  [][/\ (request.endpoint = "cancel_job" /\ request' = NoRequest /\ response' = 200) =>
          /\ jobs[request.job_id].status \in CancellableStatuses
          /\ jobs'[request.job_id].status = "cancelled"
     /\ (Idle /\ request' = NoRequest /\ response' = 400 /\ response # 400) =>
          jobs' = jobs
     /\ \A n \in Tasks :
          (/\ workers[n].pc # "idle"
           /\ Steps(n)
           /\ jobs[workers[n].job_id].created = n
           /\ jobs[workers[n].job_id].status = "cancelled"
           /\ jobs'[workers[n].job_id] # NoJob) =>
             jobs'[workers[n].job_id].status = "cancelled"]_vars
====
